---------------------------- MODULE Spec2Model ----------------------------
(***************************************************************************)
(* A model of the APK analyser's library identification pipeline:          *)
(*   - the name normaliser and the matching cascade of fuzzyMatcher.ts,    *)
(*     with its process-wide memo cache,                                   *)
(*   - the native library scanner of sdkScanner.ts,                        *)
(*   - the aggregation of matchLibraries in apkAnalyzer.ts.                *)
(*                                                                         *)
(* A JavaScript string is a sequence of one-character strings, so that     *)
(* prefixes, suffixes, substrings and regular-expression replacements are  *)
(* computed and not assumed.  A value that may be null is a sequence of    *)
(* length 0 (null) or 1.                                                   *)
(***************************************************************************)
EXTENDS Integers, Sequences, FiniteSets, TLC

(***************************************************************************)
(* Characters.  AsciiOrder lists the characters of the model in UTF-16     *)
(* code unit order, the order of Array.prototype.sort() without a          *)
(* comparator.                                                             *)
(***************************************************************************)
AsciiOrder ==
    << " ", "-", ".", "/",
       "0", "1", "2", "3", "4", "5", "6", "7", "8", "9", ":",
       "A", "B", "C", "D", "E", "F", "G", "H", "I", "J", "K", "L", "M",
       "N", "O", "P", "Q", "R", "S", "T", "U", "V", "W", "X", "Y", "Z",
       "_",
       "a", "b", "c", "d", "e", "f", "g", "h", "i", "j", "k", "l", "m",
       "n", "o", "p", "q", "r", "s", "t", "u", "v", "w", "x", "y", "z" >>

CharSet == { AsciiOrder[i] : i \in 1..Len(AsciiOrder) }

CodeUnit == [ c \in CharSet |-> CHOOSE i \in 1..Len(AsciiOrder) : AsciiOrder[i] = c ]

UpperCase == SubSeq(AsciiOrder, 16, 41)

LowerCase == SubSeq(AsciiOrder, 43, 68)

Digits == { "0", "1", "2", "3", "4", "5", "6", "7", "8", "9" }

HexDigits == Digits \cup { "A", "B", "C", "D", "E", "F", "a", "b", "c", "d", "e", "f" }

ToLowerChar ==
    [ c \in CharSet |->
        IF \E i \in 1..26 : UpperCase[i] = c
        THEN LowerCase[CHOOSE i \in 1..26 : UpperCase[i] = c]
        ELSE c ]

(***************************************************************************)
(* String.prototype methods used by the matcher and the scanner.           *)
(***************************************************************************)
toLowerCase(s) == [ i \in 1..Len(s) |-> ToLowerChar[s[i]] ]

startsWith(s, p) == Len(s) >= Len(p) /\ SubSeq(s, 1, Len(p)) = p

endsWith(s, p) == Len(s) >= Len(p) /\ SubSeq(s, Len(s) - Len(p) + 1, Len(s)) = p

includes(s, p) == \E i \in 0..(Len(s) - Len(p)) : SubSeq(s, i + 1, i + Len(p)) = p

substring(s, from) == SubSeq(s, from + 1, Len(s))

\* The position of the first occurrence of character c at or after i, or 0.
RECURSIVE IndexOfChar(_, _, _)
IndexOfChar(s, c, i) ==
    IF i > Len(s) THEN 0
    ELSE IF s[i] = c THEN i
    ELSE IndexOfChar(s, c, i + 1)

\* s.split(c) for a one-character separator c.
RECURSIVE split(_, _)
split(s, c) ==
    LET k == IndexOfChar(s, c, 1)
    IN  IF k = 0 THEN << s >>
        ELSE << SubSeq(s, 1, k - 1) >> \o split(SubSeq(s, k + 1, Len(s)), c)

\* Comparison of the default sort: by code units, a proper prefix first.
RECURSIVE CodeUnitLess(_, _)
CodeUnitLess(a, b) ==
    IF b = << >> THEN FALSE
    ELSE IF a = << >> THEN TRUE
    ELSE IF a[1] # b[1] THEN CodeUnit[a[1]] < CodeUnit[b[1]]
    ELSE CodeUnitLess(Tail(a), Tail(b))

\* The first index >= i of s that holds no decimal digit (Len(s)+1 if none).
RECURSIVE DigitsEnd(_, _)
DigitsEnd(s, i) ==
    IF i <= Len(s) /\ s[i] \in Digits THEN DigitsEnd(s, i + 1) ELSE i

Str_so == << ".", "s", "o" >>

Str_lib == << "l", "i", "b" >>

(***************************************************************************)
(* fuzzyMatcher.ts: the normaliser.                                        *)
(***************************************************************************)

\* name.replace(/\.so$/i, '')
removeExtension(name) ==
    IF endsWith(toLowerCase(name), Str_so)
    THEN SubSeq(name, 1, Len(name) - 3)
    ELSE name

removeLibPrefix(name) ==
    IF startsWith(toLowerCase(name), Str_lib) THEN substring(name, 3) ELSE name

\* (\.\d+)+ matched greedily from k: the index after the last group taken
\* (k itself when no group matches).
RECURSIVE DotGroupsEnd(_, _)
DotGroupsEnd(s, k) ==
    IF k + 1 <= Len(s) /\ s[k] = "." /\ s[k + 1] \in Digits
    THEN DotGroupsEnd(s, DigitsEnd(s, k + 1))
    ELSE k

\* /[-_.]?v?\d+(\.\d+)+/ tried at index i: the index after the match, or 0.
\* Each optional part is taken when present: giving it back cannot help,
\* the character it would leave is neither "v" nor a digit.
VersionMatchEnd(s, i) ==
    LET j1 == IF i <= Len(s) /\ s[i] \in { "-", "_", "." } THEN i + 1 ELSE i
        j2 == IF j1 <= Len(s) /\ s[j1] = "v" THEN j1 + 1 ELSE j1
        d1 == DigitsEnd(s, j2)
        g  == DotGroupsEnd(s, d1)
    IN  IF d1 = j2 \/ g = d1 THEN 0 ELSE g

\* s.replace(/[-_.]?v?\d+(\.\d+)+/g, '') scanning from index i.
RECURSIVE ReplaceVersion(_, _)
ReplaceVersion(s, i) ==
    IF i > Len(s) THEN << >>
    ELSE LET e == VersionMatchEnd(s, i)
         IN  IF e # 0 THEN ReplaceVersion(s, e)
             ELSE << s[i] >> \o ReplaceVersion(s, i + 1)

Str_release == << "-", "r", "e", "l", "e", "a", "s", "e", "-" >>

\* /-release-\d+/ tried at index i: the index after the match, or 0.
ReleaseMatchEnd(s, i) ==
    IF /\ i + 9 <= Len(s)
       /\ SubSeq(s, i, i + 8) = Str_release
       /\ s[i + 9] \in Digits
    THEN DigitsEnd(s, i + 9)
    ELSE 0

\* s.replace(/-release-\d+/g, '') scanning from index i.
RECURSIVE ReplaceRelease(_, _)
ReplaceRelease(s, i) ==
    IF i > Len(s) THEN << >>
    ELSE LET e == ReleaseMatchEnd(s, i)
         IN  IF e # 0 THEN ReplaceRelease(s, e)
             ELSE << s[i] >> \o ReplaceRelease(s, i + 1)

\* s.replace(/_\d+$/g, ''): an underscore followed by digits up to the end.
ReplaceTrailingNumber(s) ==
    IF \E i \in 1..(Len(s) - 1) : s[i] = "_" /\ DigitsEnd(s, i + 1) = Len(s) + 1
    THEN LET i == CHOOSE k \in 1..(Len(s) - 1) :
                      s[k] = "_" /\ DigitsEnd(s, k + 1) = Len(s) + 1
         IN  SubSeq(s, 1, i - 1)
    ELSE s

removeVersionSuffix(name) ==
    ReplaceTrailingNumber(ReplaceRelease(ReplaceVersion(name, 1), 1))

suffixes ==
    << <<"-", "d", "e", "b", "u", "g">>,
       <<"-", "r", "e", "l", "e", "a", "s", "e">>,
       <<"-", "p", "r", "o", "d">>,
       <<"-", "d", "e", "v">>,
       <<"_", "d", "e", "b", "u", "g">>,
       <<"_", "r", "e", "l", "e", "a", "s", "e">>,
       <<"_", "p", "r", "o", "d">>,
       <<"_", "d", "e", "v">>,
       <<"_", "a", "r", "m", "6", "4">>,
       <<"_", "a", "r", "m", "e", "a", "b", "i">>,
       <<"_", "x", "8", "6">>,
       <<"_", "x", "8", "6", "_", "6", "4">>,
       <<"-", "a", "r", "m", "6", "4", "-", "v", "8", "a">>,
       <<"-", "a", "r", "m", "e", "a", "b", "i", "-", "v", "7", "a">>,
       <<"-", "x", "8", "6">>,
       <<"-", "x", "8", "6", "_", "6", "4">>,
       <<"_", "a", "l", "i", "j", "t", "c", "a", "_", "p", "l", "u", "s">> >>

\* result.replace(new RegExp(suffix + '$', 'i'), '') for the k-th suffix on.
RECURSIVE StripSuffixesFrom(_, _)
StripSuffixesFrom(result, k) ==
    IF k > Len(suffixes) THEN result
    ELSE IF endsWith(toLowerCase(result), suffixes[k])
         THEN StripSuffixesFrom(SubSeq(result, 1, Len(result) - Len(suffixes[k])), k + 1)
         ELSE StripSuffixesFrom(result, k + 1)

removeCommonSuffix(name) == StripSuffixesFrom(name, 1)

packagePrefixes ==
    << <<"c", "o", "m", "_">>,
       <<"c", "n", "_">>,
       <<"o", "r", "g", "_">>,
       <<"i", "o", "_">>,
       <<"n", "e", "t", "_">>,
       <<"a", "n", "d", "r", "o", "i", "d", "_">> >>

removePackagePrefix(name) ==
    LET parts == split(name, "_")
    IN  IF /\ \E k \in 1..Len(packagePrefixes) :
                  startsWith(toLowerCase(name), packagePrefixes[k])
           /\ Len(parts) >= 3
        THEN parts[Len(parts)]
        ELSE name

\* new Set(), add() in order of the list, Array.from(): first occurrences.
RECURSIVE SetInsertionOrder(_)
SetInsertionOrder(list) ==
    IF list = << >> THEN << >>
    ELSE LET init == SetInsertionOrder(SubSeq(list, 1, Len(list) - 1))
             last == list[Len(list)]
         IN  IF \E i \in 1..Len(init) : init[i] = last
             THEN init
             ELSE Append(init, last)

IsNonEmpty(name) == Len(name) > 0

generateNormalizedNames(libraryName) ==
    LET current        == removeExtension(libraryName)
        withoutLib     == removeLibPrefix(current)
        lowercase      == toLowerCase(current)
        withoutVersion == removeVersionSuffix(current)
        withoutSuffix  == removeCommonSuffix(current)
        withoutPackage == removePackagePrefix(current)
        fullyNormalized ==
            removePackagePrefix(
                removeCommonSuffix(
                    removeVersionSuffix(
                        removeLibPrefix(current))))
        variants ==
            << withoutLib, lowercase, removeLibPrefix(lowercase),
               withoutVersion, withoutVersion \o Str_so,
               Str_lib \o withoutVersion \o Str_so,
               withoutSuffix, withoutSuffix \o Str_so,
               Str_lib \o withoutSuffix \o Str_so >>
            \o (IF withoutPackage # current
                THEN << withoutPackage, withoutPackage \o Str_so,
                        Str_lib \o withoutPackage \o Str_so >>
                ELSE << >>)
            \o << fullyNormalized, fullyNormalized \o Str_so,
                  Str_lib \o fullyNormalized \o Str_so >>
    IN  SelectSeq(SetInsertionOrder(variants), IsNonEmpty)


(***************************************************************************)
(* fuzzyMatcher.ts: the matching cascade.                                  *)
(*                                                                         *)
(* A rules map (one partition of the catalog, a JavaScript object) is the  *)
(* sequence of its own properties in Object.keys order, each a record      *)
(* [key, value]; no key occurs twice.  A catalog entry carries the fields  *)
(* id, uuid, name, label and type; its remaining descriptive fields        *)
(* (developer, description, sourceLink, category...) are copied through    *)
(* unread by every operation modelled here and are left out.               *)
(***************************************************************************)
Null == << >>

\* "constructor", "toString", "valueOf": names of properties a rules map, a
\* plain object, inherits from Object.prototype.
ObjectPrototypeKeys ==
    { << "c", "o", "n", "s", "t", "r", "u", "c", "t", "o", "r" >>,
      << "t", "o", "S", "t", "r", "i", "n", "g" >>,
      << "v", "a", "l", "u", "e", "O", "f" >> }

\* The value of an inherited property: a built-in function.
Inherited(key) == [ builtin |-> key ]

\* rulesMap[key]: the value found under key as a one-element sequence, or
\* Null (undefined).  The property is looked up among the map's own keys
\* and then on its prototype.
Lookup(rulesMap, key) ==
    IF \E i \in 1..Len(rulesMap) : rulesMap[i].key = key
    THEN << rulesMap[CHOOSE i \in 1..Len(rulesMap) : rulesMap[i].key = key].value >>
    ELSE IF key \in ObjectPrototypeKeys
         THEN << Inherited(key) >>
         ELSE Null

\* Whether rule key ruleKey is a substring hit for libraryName.
IsSubstringHit(libraryName, ruleKey) ==
    LET normalizedName    == toLowerCase(libraryName)
        normalizedRuleKey == toLowerCase(ruleKey)
    IN  \/ includes(normalizedName, removeExtension(normalizedRuleKey))
        \/ includes(normalizedRuleKey, removeExtension(normalizedName))

\* The loop of findSubstringMatch from the i-th key on.
RECURSIVE SubstringScan(_, _, _)
SubstringScan(libraryName, rulesMap, i) ==
    IF i > Len(rulesMap) THEN Null
    ELSE IF IsSubstringHit(libraryName, rulesMap[i].key)
         THEN << rulesMap[i].value >>
         ELSE SubstringScan(libraryName, rulesMap, i + 1)

findSubstringMatch(libraryName, rulesMap) == SubstringScan(libraryName, rulesMap, 1)

\* name.replace(/^lib/i, '')
StripLeadingLib(name) ==
    IF startsWith(toLowerCase(name), Str_lib) THEN substring(name, 3) ELSE name

HashMinLen == 8

HashMaxLen == 16

isHashName(libraryName) ==
    LET coreName == removeExtension(StripLeadingLib(libraryName))
    IN  /\ Len(coreName) >= HashMinLen
        /\ Len(coreName) <= HashMaxLen
        /\ \A i \in 1..Len(coreName) : coreName[i] \in HexDigits

\* The loop over normalizedNames from the i-th candidate on.
RECURSIVE NormalizedScan(_, _, _)
NormalizedScan(normalizedNames, rulesMap, i) ==
    IF i > Len(normalizedNames) THEN Null
    ELSE IF Lookup(rulesMap, normalizedNames[i]) # Null
         THEN Lookup(rulesMap, normalizedNames[i])
         ELSE NormalizedScan(normalizedNames, rulesMap, i + 1)

\* Variant of HashNameOrNull that classifies a hash name before it looks at
\* the substring match.
HashNameFirst(libraryName, substringMatch) ==
    IF isHashName(libraryName) THEN Null ELSE substringMatch

\* fuzzyMatchLibrary from the hash-name test on: both branches return null,
\* the first after a console.warn.
HashNameOrNull(libraryName, substringMatch) ==
    IF substringMatch # Null THEN substringMatch
    ELSE IF isHashName(libraryName)
         THEN Null
         ELSE Null

\* fuzzyMatchLibrary from the substring search on.
SubstringOrNull(libraryName, rulesMap, normalizedMatch) ==
    IF normalizedMatch # Null THEN normalizedMatch
    ELSE HashNameOrNull(libraryName, findSubstringMatch(libraryName, rulesMap))

\* Variant of fuzzyMatchLibrary without the pass over the normalized names.
fuzzyMatchLibraryUnnormalized(libraryName, rulesMap) ==
    IF Lookup(rulesMap, libraryName) # Null
    THEN Lookup(rulesMap, libraryName)
    ELSE SubstringOrNull(libraryName, rulesMap, Null)

fuzzyMatchLibrary(libraryName, rulesMap) ==
    IF Lookup(rulesMap, libraryName) # Null
    THEN Lookup(rulesMap, libraryName)
    ELSE SubstringOrNull(libraryName, rulesMap,
             NormalizedScan(generateNormalizedNames(libraryName), rulesMap, 1))

(***************************************************************************)
(* fuzzyMatcher.ts: the memoised matcher.  matchCache is a module-level    *)
(* Map from the literal name to the result of the first lookup of that     *)
(* name; here a set of records [name, result].                             *)
(***************************************************************************)
CacheHas(cache, libraryName) == \E e \in cache : e.name = libraryName

CacheGet(cache, libraryName) == (CHOOSE e \in cache : e.name = libraryName).result

\* matchCache.set(libraryName, result); return result
CacheSet(cache, libraryName, result) ==
    [ result |-> result,
      cache  |-> cache \cup { [ name |-> libraryName, result |-> result ] } ]

\* The result of the call and the cache it leaves.
fuzzyMatchLibraryWithCache(libraryName, rulesMap, cache) ==
    IF CacheHas(cache, libraryName)
    THEN [ result |-> CacheGet(cache, libraryName), cache |-> cache ]
    ELSE CacheSet(cache, libraryName, fuzzyMatchLibrary(libraryName, rulesMap))

clearMatchCache(cache) == { }

(***************************************************************************)
(* sdkScanner.ts.  A zip entry is a record [relativePath, dir]; the        *)
(* archive is the sequence of its entries in the order zip.forEach visits  *)
(* them.  A Map is the sequence of its [key, value] pairs in insertion     *)
(* order.                                                                  *)
(***************************************************************************)
MapHas(map, key) == \E i \in 1..Len(map) : map[i].key = key

MapIndex(map, key) == CHOOSE i \in 1..Len(map) : map[i].key = key

MapGet(map, key) == map[MapIndex(map, key)].value

MapSet(map, key, value) ==
    IF MapHas(map, key)
    THEN [ map EXCEPT ![MapIndex(map, key)].value = value ]
    ELSE Append(map, [ key |-> key, value |-> value ])

MapKeys(map) == [ i \in 1..Len(map) |-> map[i].key ]

MapValues(map) == [ i \in 1..Len(map) |-> map[i].value ]

ArrayIncludes(array, x) == \E i \in 1..Len(array) : array[i] = x

\* Insertion of x into a sorted array of strings, after its equals.
RECURSIVE InsertString(_, _)
InsertString(sorted, x) ==
    IF sorted = << >> THEN << x >>
    ELSE IF CodeUnitLess(x, sorted[1]) THEN << x >> \o sorted
    ELSE << sorted[1] >> \o InsertString(Tail(sorted), x)

\* array.sort() on strings: ascending by code units, stable.
RECURSIVE SortStrings(_)
SortStrings(array) ==
    IF array = << >> THEN << >>
    ELSE InsertString(SortStrings(SubSeq(array, 1, Len(array) - 1)), array[Len(array)])

Str_libSlash == << "l", "i", "b", "/" >>

\* The callback of zip.forEach for one entry.
\* Variant of AddOccurrence that leaves count as it is.
AddOccurrenceUncounted(libInfo, relativePath, architecture) ==
    [ libInfo EXCEPT
        !.locations = Append(@, relativePath),
        !.architectures =
            IF ArrayIncludes(@, architecture) THEN @ ELSE Append(@, architecture) ]

\* libInfo.count++; libInfo.locations.push(relativePath); the architecture
\* is pushed unless included.
AddOccurrence(libInfo, relativePath, architecture) ==
    [ libInfo EXCEPT
        !.count = @ + 1,
        !.locations = Append(@, relativePath),
        !.architectures =
            IF ArrayIncludes(@, architecture) THEN @ ELSE Append(@, architecture) ]

\* The scan of an entry if deeper paths were accepted as well.
ScanEntryAnyDepth(nativeLibsMap, entry) ==
    LET relativePath == entry.relativePath
        parts        == split(relativePath, "/")
    IN  IF /\ startsWith(relativePath, Str_libSlash)
           /\ endsWith(relativePath, Str_so)
           /\ ~entry.dir
           /\ Len(parts) >= 3
        THEN LET architecture == parts[2]
                 fileName     == parts[3]
                 withEntry ==
                     IF MapHas(nativeLibsMap, fileName)
                     THEN nativeLibsMap
                     ELSE MapSet(nativeLibsMap, fileName,
                                 [ name |-> fileName, count |-> 0,
                                   locations |-> << >>, architectures |-> << >> ])
                 libInfo == MapGet(withEntry, fileName)
             IN  MapSet(withEntry, fileName,
                        AddOccurrence(libInfo, relativePath, architecture))
        ELSE nativeLibsMap

ScanEntry(nativeLibsMap, entry) ==
    LET relativePath == entry.relativePath
        parts        == split(relativePath, "/")
    IN  IF /\ startsWith(relativePath, Str_libSlash)
           /\ endsWith(relativePath, Str_so)
           /\ ~entry.dir
           /\ Len(parts) = 3
        THEN LET architecture == parts[2]
                 fileName     == parts[3]
                 withEntry ==
                     IF MapHas(nativeLibsMap, fileName)
                     THEN nativeLibsMap
                     ELSE MapSet(nativeLibsMap, fileName,
                                 [ name |-> fileName, count |-> 0,
                                   locations |-> << >>, architectures |-> << >> ])
                 libInfo == MapGet(withEntry, fileName)
             IN  MapSet(withEntry, fileName,
                        AddOccurrence(libInfo, relativePath, architecture))
        ELSE nativeLibsMap

RECURSIVE ScanEntries(_, _)
ScanEntries(zipFiles, k) ==
    IF k = 0 THEN << >>
    ELSE ScanEntry(ScanEntries(zipFiles, k - 1), zipFiles[k])

\* nativeLibsMap.forEach(libInfo => { architectures.sort(); locations.sort() })
SortLibInfos(nativeLibsMap) ==
    [ i \in 1..Len(nativeLibsMap) |->
        [ nativeLibsMap[i] EXCEPT
            !.value.architectures = SortStrings(@),
            !.value.locations = SortStrings(@) ] ]

scanNativeLibraries(zipFiles) ==
    LET nativeLibsMap == ScanEntries(zipFiles, Len(zipFiles))
    IN  [ nativeLibs    |-> SortStrings(MapKeys(nativeLibsMap)),
          nativeLibsMap |-> SortLibInfos(nativeLibsMap) ]

scanApk(zipFiles, manifest) ==
    LET native == scanNativeLibraries(zipFiles)
    IN  [ nativeLibs    |-> native.nativeLibs,
          nativeLibsMap |-> native.nativeLibsMap,
          activities    |-> manifest.activities,
          services      |-> manifest.services,
          providers     |-> manifest.providers,
          receivers     |-> manifest.receivers ]

(***************************************************************************)
(* apkAnalyzer.ts: matchLibraries.                                         *)
(*                                                                         *)
(* The loops run over a record st:                                         *)
(*   libraryMap     the Map from merge key to Library,                     *)
(*   nativeLibsMap  scanResult.nativeLibsMap (its arrays can change, see   *)
(*                  shared),                                               *)
(*   cache          matchCache,                                            *)
(*   shared         the pairs [key, name] such that the Library under key  *)
(*                  was built from the LibraryInfo of name and its         *)
(*                  locations and architectures ARE that LibraryInfo's     *)
(*                  array objects (libInfo.locations is stored, not        *)
(*                  copied): a push through one is seen through the other, *)
(*   calls          the matcher calls made so far, each with the value it  *)
(*                  returned, in call order.                               *)
(***************************************************************************)
\* Variant of LibraryKey that keys every record by the entry's id.
LibraryKeyById(matched) == matched.id

\* matched.uuid || matched.id  (the empty string is falsy)
LibraryKey(matched) == IF matched.uuid # << >> THEN matched.uuid ELSE matched.id

\* The LibraryInfo array contents after a push through a Library under key.
WriteThrough(st, key, locations, architectures) ==
    [ i \in 1..Len(st.nativeLibsMap) |->
        IF [ key |-> key, name |-> st.nativeLibsMap[i].key ] \in st.shared
        THEN [ st.nativeLibsMap[i] EXCEPT
                 !.value.locations = locations,
                 !.value.architectures = architectures ]
        ELSE st.nativeLibsMap[i] ]

\* Variant of PushMissing that pushes every architecture.
PushAll(architectures, more) == architectures \o more

\* libInfo.architectures.forEach(arch => includes(arch) || push(arch))
RECURSIVE PushMissing(_, _)
PushMissing(architectures, more) ==
    IF more = << >> THEN architectures
    ELSE PushMissing(IF ArrayIncludes(architectures, more[1])
                     THEN architectures
                     ELSE Append(architectures, more[1]),
                     Tail(more))

ArchitecturesOf(library) ==
    IF "architectures" \in DOMAIN library THEN library.architectures ELSE << >>

\* The body of the loop over scanResult.nativeLibs for one libName, given
\* what the matcher call returned.
NativeMerge(st, libName, call) ==
    LET matched  == call.result
        hasInfo  == MapHas(st.nativeLibsMap, libName)
        libInfo  == MapGet(st.nativeLibsMap, libName)
        logged   == Append(st.calls, [ kind |-> "native", name |-> libName,
                                       matched |-> matched,
                                       libraryMap |-> << >> ])
        base     == [ st EXCEPT !.cache = call.cache, !.calls = logged ]
    IN  IF matched # Null
        THEN LET libraryKey == LibraryKey(matched[1])
             IN  IF MapHas(st.libraryMap, libraryKey)
                 THEN IF hasInfo
                      THEN LET existing == MapGet(st.libraryMap, libraryKey)
                               locations == existing.locations \o libInfo.locations
                               architectures ==
                                   PushMissing(ArchitecturesOf(existing),
                                               libInfo.architectures)
                               merged ==
                                   [ id |-> existing.id, uuid |-> existing.uuid,
                                     name |-> existing.name, label |-> existing.label,
                                     type |-> existing.type,
                                     count |-> existing.count + libInfo.count,
                                     locations |-> locations,
                                     architectures |-> architectures,
                                     hasMetadata |-> existing.hasMetadata,
                                     expanded |-> existing.expanded ]
                           IN  [ base EXCEPT
                                   !.libraryMap = MapSet(@, libraryKey, merged),
                                   !.nativeLibsMap =
                                       WriteThrough(st, libraryKey, locations, architectures) ]
                      ELSE base
                 ELSE LET library ==
                              [ id |-> matched[1].id, uuid |-> matched[1].uuid,
                                name |-> matched[1].name, label |-> matched[1].label,
                                type |-> matched[1].type,
                                count |-> IF hasInfo THEN libInfo.count ELSE 0,
                                locations |-> IF hasInfo THEN libInfo.locations ELSE << >>,
                                architectures |->
                                    IF hasInfo THEN libInfo.architectures ELSE << >>,
                                hasMetadata |-> TRUE,
                                expanded |-> FALSE ]
                      IN  [ base EXCEPT
                              !.libraryMap = MapSet(@, libraryKey, library),
                              !.shared =
                                  IF hasInfo
                                  THEN @ \cup { [ key |-> libraryKey, name |-> libName ] }
                                  ELSE @ ]
        ELSE LET libraryKey == libName
             IN  IF ~MapHas(st.libraryMap, libraryKey)
                 THEN LET library ==
                              [ id |-> libraryKey, uuid |-> << >>,
                                name |-> libName, label |-> libName,
                                type |-> "native",
                                count |-> IF hasInfo THEN libInfo.count ELSE 0,
                                locations |-> IF hasInfo THEN libInfo.locations ELSE << >>,
                                architectures |->
                                    IF hasInfo THEN libInfo.architectures ELSE << >>,
                                hasMetadata |-> FALSE,
                                expanded |-> FALSE ]
                      IN  [ base EXCEPT
                              !.libraryMap = MapSet(@, libraryKey, library),
                              !.shared =
                                  IF hasInfo
                                  THEN @ \cup { [ key |-> libraryKey, name |-> libName ] }
                                  ELSE @ ]
                 ELSE base

\* History only: the merge map as the iteration just logged leaves it.
Snapshot(st) ==
    [ st EXCEPT !.calls[Len(st.calls)].libraryMap = st.libraryMap ]

\* Variant of NativeStep that skips a name the matcher does not resolve.
NativeMergeMatchedOnly(st, libName, call) ==
    IF call.result = Null
    THEN [ st EXCEPT
             !.cache = call.cache,
             !.calls = Append(@, [ kind |-> "native", name |-> libName,
                                   matched |-> Null, libraryMap |-> << >> ]) ]
    ELSE NativeMerge(st, libName, call)

NativeStepMatchedOnly(st, libName, rulesMap) ==
    Snapshot(NativeMergeMatchedOnly(st, libName,
                 fuzzyMatchLibraryWithCache(libName, rulesMap, st.cache)))

NativeStep(st, libName, rulesMap) ==
    Snapshot(NativeMerge(st, libName,
                         fuzzyMatchLibraryWithCache(libName, rulesMap, st.cache)))

\* Variant of LocationPrefix with the prefix of the second loop in all four.
LocationPrefixCopied ==
    [ activity |-> << "S", "e", "r", "v", "i", "c", "e", ":", " " >>,
      service  |-> << "S", "e", "r", "v", "i", "c", "e", ":", " " >>,
      provider |-> << "S", "e", "r", "v", "i", "c", "e", ":", " " >>,
      receiver |-> << "S", "e", "r", "v", "i", "c", "e", ":", " " >> ]

LocationPrefix ==
    [ activity |-> << "A", "c", "t", "i", "v", "i", "t", "y", ":", " " >>,
      service  |-> << "S", "e", "r", "v", "i", "c", "e", ":", " " >>,
      provider |-> << "P", "r", "o", "v", "i", "d", "e", "r", ":", " " >>,
      receiver |-> << "R", "e", "c", "e", "i", "v", "e", "r", ":", " " >> ]

\* The body of each of the four component loops for one component name,
\* given what the matcher call returned.
ComponentMerge(st, kind, componentName, call) ==
    LET matched  == call.result
        logged   == Append(st.calls, [ kind |-> kind, name |-> componentName,
                                       matched |-> matched,
                                       libraryMap |-> << >> ])
        base     == [ st EXCEPT !.cache = call.cache, !.calls = logged ]
        location == LocationPrefix[kind] \o componentName
    IN  IF matched # Null
        THEN LET libraryKey == LibraryKey(matched[1])
             IN  IF MapHas(st.libraryMap, libraryKey)
                 THEN LET existing  == MapGet(st.libraryMap, libraryKey)
                          locations == Append(existing.locations, location)
                      IN  [ base EXCEPT
                              !.libraryMap =
                                  MapSet(@, libraryKey,
                                         [ existing EXCEPT
                                             !.count = @ + 1,
                                             !.locations = locations ]),
                              !.nativeLibsMap =
                                  WriteThrough(st, libraryKey, locations,
                                               ArchitecturesOf(existing)) ]
                 ELSE LET library ==
                              [ id |-> matched[1].id, uuid |-> matched[1].uuid,
                                name |-> matched[1].name, label |-> matched[1].label,
                                type |-> matched[1].type,
                                count |-> 1,
                                locations |-> << location >>,
                                hasMetadata |-> TRUE,
                                expanded |-> FALSE ]
                      IN  [ base EXCEPT !.libraryMap = MapSet(@, libraryKey, library) ]
        ELSE base

ComponentStep(st, kind, componentName, rulesMap) ==
    Snapshot(ComponentMerge(st, kind, componentName,
                            fuzzyMatchLibraryWithCache(componentName, rulesMap,
                                                       st.cache)))

RECURSIVE NativeLoop(_, _, _, _)
NativeLoop(st, nativeLibs, k, rulesMap) ==
    IF k = 0 THEN st
    ELSE NativeStep(NativeLoop(st, nativeLibs, k - 1, rulesMap), nativeLibs[k], rulesMap)

RECURSIVE ComponentLoop(_, _, _, _, _)
ComponentLoop(st, kind, components, k, rulesMap) ==
    IF k = 0 THEN st
    ELSE ComponentStep(ComponentLoop(st, kind, components, k - 1, rulesMap),
                       kind, components[k], rulesMap)

(***************************************************************************)
(* a.label.localeCompare(b.label).  The comparison is the host's default   *)
(* collation; on the characters of the model the root collation orders     *)
(* punctuation before digits before letters, a letter's two cases together *)
(* (first level), and at equal first level the lower case first.           *)
(***************************************************************************)
CollationOrder ==
    << " ", "_", "-", ":", ".", "/",
       "0", "1", "2", "3", "4", "5", "6", "7", "8", "9",
       "a", "b", "c", "d", "e", "f", "g", "h", "i", "j", "k", "l", "m",
       "n", "o", "p", "q", "r", "s", "t", "u", "v", "w", "x", "y", "z" >>

PrimaryWeight ==
    [ c \in CharSet |->
        CHOOSE i \in 1..Len(CollationOrder) : CollationOrder[i] = ToLowerChar[c] ]

\* -1, 0 or 1 by the first differing weight; w maps a character to a weight.
RECURSIVE CompareWeights(_, _, _)
CompareWeights(a, b, w) ==
    IF a = << >> /\ b = << >> THEN 0
    ELSE IF a = << >> THEN -1
    ELSE IF b = << >> THEN 1
    ELSE IF w[a[1]] < w[b[1]] THEN -1
    ELSE IF w[a[1]] > w[b[1]] THEN 1
    ELSE CompareWeights(Tail(a), Tail(b), w)

CaseWeight == [ c \in CharSet |-> IF ToLowerChar[c] = c THEN 0 ELSE 1 ]

localeCompare(a, b) ==
    LET first == CompareWeights(a, b, PrimaryWeight)
    IN  IF first # 0 THEN first ELSE CompareWeights(a, b, CaseWeight)

\* Insertion of a library into a sorted array, after those not greater.
RECURSIVE InsertLibrary(_, _)
InsertLibrary(sorted, library) ==
    IF sorted = << >> THEN << library >>
    ELSE IF localeCompare(library.label, sorted[1].label) < 0
         THEN << library >> \o sorted
         ELSE << sorted[1] >> \o InsertLibrary(Tail(sorted), library)

\* Variant of SortLibraries that leaves the array in map order.
Unsorted(libraries) == libraries

\* libraries.sort((a, b) => a.label.localeCompare(b.label)): stable.
RECURSIVE SortLibraries(_)
SortLibraries(libraries) ==
    IF libraries = << >> THEN << >>
    ELSE InsertLibrary(SortLibraries(SubSeq(libraries, 1, Len(libraries) - 1)),
                       libraries[Len(libraries)])

\* The five loops of matchLibraries, in the order of the code.
MergeLoops(scanResult, rules, cache) ==
    LET st0 == [ libraryMap |-> << >>, nativeLibsMap |-> scanResult.nativeLibsMap,
                 cache |-> cache, shared |-> { }, calls |-> << >> ]
        st1 == NativeLoop(st0, scanResult.nativeLibs, Len(scanResult.nativeLibs),
                          rules.rules.native)
        st2 == ComponentLoop(st1, "activity", scanResult.activities,
                             Len(scanResult.activities), rules.rules.activities)
        st3 == ComponentLoop(st2, "service", scanResult.services,
                             Len(scanResult.services), rules.rules.services)
        st4 == ComponentLoop(st3, "provider", scanResult.providers,
                             Len(scanResult.providers), rules.rules.providers)
    IN  ComponentLoop(st4, "receiver", scanResult.receivers,
                      Len(scanResult.receivers), rules.rules.receivers)

\* What matchLibraries returns and leaves behind once the loops are done.
SortAndReturn(st) ==
    [ libraries     |-> SortLibraries(MapValues(st.libraryMap)),
      libraryMap    |-> st.libraryMap,
      nativeLibsMap |-> st.nativeLibsMap,
      cache         |-> st.cache,
      calls         |-> st.calls ]

matchLibraries(scanResult, rules, cache) ==
    SortAndReturn(MergeLoops(scanResult, rules, cache))

(***************************************************************************)
(* Inputs.  The strings of the analyses: archive paths, native file names, *)
(* component class names, and the catalog's keys, uuids and labels.        *)
(***************************************************************************)
\* "lib/arm64-v8a/libacra-5.9.7.so"
Path_acra597_arm64 ==
    << "l", "i", "b", "/", "a", "r", "m", "6", "4", "-", "v", "8", "a",
       "/", "l", "i", "b", "a", "c", "r", "a", "-", "5", ".", "9", ".",
       "7", ".", "s", "o" >>

\* "lib/armeabi-v7a/libacra-5.9.7.so"
Path_acra597_armeabi ==
    << "l", "i", "b", "/", "a", "r", "m", "e", "a", "b", "i", "-", "v",
       "7", "a", "/", "l", "i", "b", "a", "c", "r", "a", "-", "5", ".",
       "9", ".", "7", ".", "s", "o" >>

\* "lib/arm64-v8a/libacra.so"
Path_acra_arm64 ==
    << "l", "i", "b", "/", "a", "r", "m", "6", "4", "-", "v", "8", "a",
       "/", "l", "i", "b", "a", "c", "r", "a", ".", "s", "o" >>

\* "lib/x86/libzz.so"
Path_zz_x86 ==
    << "l", "i", "b", "/", "x", "8", "6", "/", "l", "i", "b", "z", "z",
       ".", "s", "o" >>

\* "libacra-5.9.7.so"
Name_acra597 ==
    << "l", "i", "b", "a", "c", "r", "a", "-", "5", ".", "9", ".", "7",
       ".", "s", "o" >>

\* "libacra.so"
Name_acra ==
    << "l", "i", "b", "a", "c", "r", "a", ".", "s", "o" >>

\* "libzz.so"
Name_zz ==
    << "l", "i", "b", "z", "z", ".", "s", "o" >>

\* "arm64-v8a"
Abi_arm64 ==
    << "a", "r", "m", "6", "4", "-", "v", "8", "a" >>

\* "armeabi-v7a"
Abi_armeabi ==
    << "a", "r", "m", "e", "a", "b", "i", "-", "v", "7", "a" >>

\* "org.acra.Svc"
Comp_acra ==
    << "o", "r", "g", ".", "a", "c", "r", "a", ".", "S", "v", "c" >>

\* "com.b.B"
Comp_b ==
    << "c", "o", "m", ".", "b", ".", "B" >>

\* "ACRA"
Label_ACRA ==
    << "A", "C", "R", "A" >>

\* "Bugly"
Label_Bugly ==
    << "B", "u", "g", "l", "y" >>

\* "U1"
Uuid_U1 ==
    << "U", "1" >>

\* "U2"
Uuid_U2 ==
    << "U", "2" >>

\* A catalog entry as scripts/build-rules-bundle.js writes it: id and name
\* are the rule key, type is the partition.
Entry(ruleKey, uuid, label, type) ==
    [ id |-> ruleKey, uuid |-> uuid, name |-> ruleKey, label |-> label, type |-> type ]

Rule(ruleKey, uuid, label, type) ==
    [ key |-> ruleKey, value |-> Entry(ruleKey, uuid, label, type) ]

\* The catalog whose only rule is "libacra.so" (uuid U1, label ACRA).
BundleNativeOnly ==
    [ version |-> "2024-01-01-0000",
      rules |->
        [ native     |-> << Rule(Name_acra, Uuid_U1, Label_ACRA, "native") >>,
          activities |-> << >>,
          services   |-> << >>,
          providers  |-> << >>,
          receivers  |-> << >> ] ]

\* A later catalog: the SDK U1 is also known by a component in three
\* partitions, and a second SDK U2 by a component in two.
BundleComponents ==
    [ version |-> "2024-06-01-0000",
      rules |->
        [ native     |-> << Rule(Name_acra, Uuid_U1, Label_ACRA, "native") >>,
          activities |-> << Rule(Comp_b, Uuid_U2, Label_Bugly, "activities"),
                            Rule(Comp_acra, Uuid_U1, Label_ACRA, "activities") >>,
          services   |-> << Rule(Comp_acra, Uuid_U1, Label_ACRA, "services") >>,
          providers  |-> << Rule(Comp_b, Uuid_U2, Label_Bugly, "providers") >>,
          receivers  |-> << Rule(Comp_acra, Uuid_U1, Label_ACRA, "receivers") >> ] ]

\* A catalog version from which the rule "libacra.so" has been withdrawn.
BundleWithdrawn ==
    [ version |-> "2024-09-01-0000",
      rules |->
        [ native     |-> << >>,
          activities |-> << Rule(Comp_b, Uuid_U2, Label_Bugly, "activities") >>,
          services   |-> << >>,
          providers  |-> << >>,
          receivers  |-> << >> ] ]

\* The versions of the catalog the store may hold when loadRules is called.
Bundles == { BundleNativeOnly, BundleComponents, BundleWithdrawn }

File(relativePath) == [ relativePath |-> relativePath, dir |-> FALSE ]

\* The entries an archive is drawn from, in archive order (not sorted).
ZipUniverse ==
    << File(Path_zz_x86), File(Path_acra597_armeabi),
       File(Path_acra_arm64), File(Path_acra597_arm64) >>

\* The subsequence of seq at the indices of keep.
RECURSIVE Restrict(_, _, _)
Restrict(seq, keep, k) ==
    IF k = 0 THEN << >>
    ELSE IF k \in keep
         THEN Append(Restrict(seq, keep, k - 1), seq[k])
         ELSE Restrict(seq, keep, k - 1)

Archives ==
    { Restrict(ZipUniverse, keep, Len(ZipUniverse)) :
        keep \in SUBSET (1..Len(ZipUniverse)) }

ComponentKinds == { "activity", "service", "provider", "receiver" }

ComponentNames == { Comp_acra, Comp_b }

\* The number of component declarations of a manifest.
MaxComponents == 2

\* A manifest document as far as scanning reads it: its component
\* declarations [kind, name] in document order.
ManifestDocs ==
    UNION { [ 1..n -> [ kind : ComponentKinds, name : ComponentNames ] ] :
              n \in 0..MaxComponents }

\* The names declared with a kind, in document order, duplicates kept.
RECURSIVE NamesOfKind(_, _)
NamesOfKind(doc, kind) ==
    IF doc = << >> THEN << >>
    ELSE IF doc[1].kind = kind
         THEN << doc[1].name >> \o NamesOfKind(Tail(doc), kind)
         ELSE NamesOfKind(Tail(doc), kind)

ComponentLists(doc) ==
    [ activities |-> NamesOfKind(doc, "activity"),
      services   |-> NamesOfKind(doc, "service"),
      providers  |-> NamesOfKind(doc, "provider"),
      receivers  |-> NamesOfKind(doc, "receiver") ]

Manifests == { ComponentLists(doc) : doc \in ManifestDocs }

(***************************************************************************)
(* Inputs of the direct calls of fuzzyMatchLibrary: the keys a rules map   *)
(* is built from, each with its own entry, and the names looked up.        *)
(***************************************************************************)
\* "libfoo.so"
Key_libfoo ==
    << "l", "i", "b", "f", "o", "o", ".", "s", "o" >>

\* "foo"
Key_foo ==
    << "f", "o", "o" >>

\* "A3AE"
Key_hex ==
    << "A", "3", "A", "E" >>

\* "libbarbaz.so"
Key_barbaz ==
    << "l", "i", "b", "b", "a", "r", "b", "a", "z", ".", "s", "o" >>

\* "libfoo-5.9.7.so"
Name_foo597 ==
    << "l", "i", "b", "f", "o", "o", "-", "5", ".", "9", ".", "7", ".", "s", "o" >>

\* "libA3AEECD8.so"
Name_hash ==
    << "l", "i", "b", "A", "3", "A", "E", "E", "C", "D", "8", ".", "s", "o" >>

\* "libbar.so"
Name_bar ==
    << "l", "i", "b", "b", "a", "r", ".", "s", "o" >>

EntryA == Entry(Key_libfoo, << "A" >>, << "A" >>, "native")

EntryB == Entry(Key_foo, << "B" >>, << "B" >>, "native")

EntryC == Entry(Key_hex, << "C" >>, << "C" >>, "native")

EntryD == Entry(Key_barbaz, << "D" >>, << "D" >>, "native")

MatcherRules ==
    { [ key |-> Key_libfoo, value |-> EntryA ],
      [ key |-> Key_foo,    value |-> EntryB ],
      [ key |-> Key_hex,    value |-> EntryC ],
      [ key |-> Key_barbaz, value |-> EntryD ] }

\* The number of keys of a rules map.
MaxKeys == 2

\* The number of direct calls of fuzzyMatchLibrary.
MaxCalls == 2

\* The rules maps of at most MaxKeys keys, in every Object.keys order.
RulesMaps ==
    UNION { { t \in [ 1..n -> MatcherRules ] :
                \A i, j \in 1..n : i # j => t[i].key # t[j].key } :
            n \in 0..MaxKeys }

MatcherNames == { Name_foo597, Name_hash, Name_bar, Key_libfoo, Key_foo }

\* The archives and manifests of the analyses of one session.
SessionArchives ==
    { << File(Path_acra_arm64) >>,
      << File(Path_zz_x86), File(Path_acra597_arm64) >> }

SessionManifests ==
    { ComponentLists(<< >>),
      ComponentLists(<< [ kind |-> "activity", name |-> Comp_b ] >>) }

\* The number of analyses of one session.
MaxAnalyses == 2

(***************************************************************************)
(* The analyses (analyzeApk) of one session: the page, or one worker.      *)
(*                                                                         *)
(*   pc          the await the current analysis is suspended at            *)
(*   analyses    the number of analyses started in the session             *)
(*   zipFiles    the entries of the archive being analysed                 *)
(*   manifest    the component lists extracted from its manifest           *)
(*   scanResult  what scanApk returned (Null before)                       *)
(*   rules       what loadRules returned (Null before)                     *)
(*   matchCache  the matcher's module-level cache                          *)
(*   libraryMap  the merge map of matchLibraries when it returned          *)
(*   libraries   what matchLibraries returned                              *)
(*   calls       the matcher calls of matchLibraries with their results    *)
(*   notified    the stages handed to onProgress by the current analysis   *)
(*   mRulesMap, mCalls   the rules map and the results of the direct calls *)
(*               of fuzzyMatchLibrary                                      *)
(*   flight, cacheLog    the analyses in flight at the same time and the   *)
(*               order of their accesses to matchCache                     *)
(*   buf, decoder        a binary XML buffer and the state of the decoder  *)
(*               (analyse and the listener of parse) working through it    *)
(*   xmlText, extracted  an XML text and what extractComponents returned   *)
(***************************************************************************)
VARIABLES pc, analyses, zipFiles, manifest, scanResult, rules, matchCache,
          libraryMap, libraries, calls, notified, mRulesMap, mCalls,
          flight, cacheLog, buf, decoder, xmlText, extracted, handlers,
          posted

vars == << pc, analyses, zipFiles, manifest, scanResult, rules, matchCache,
           libraryMap, libraries, calls, notified, mRulesMap, mCalls,
           flight, cacheLog, buf, decoder, xmlText, extracted, handlers,
           posted >>

matcherVars == << mRulesMap, mCalls >>

flightVars == << flight, cacheLog >>

decoderVars == << buf, decoder >>

extractorVars == << xmlText, extracted >>

workerVars == << handlers, posted >>

\* No direct call of the matcher, no second analysis, no buffer and no text.
MatcherIdle == mRulesMap = << >> /\ mCalls = << >>

FlightIdle == flight = << >> /\ cacheLog = << >>

DecoderIdle == buf = << >> /\ decoder = Null

ExtractorIdle == xmlText = << >> /\ extracted = Null

\* No message received by the worker and none posted.
WorkerIdle == handlers = << >> /\ posted = << >>

\* onProgress?.({ stage, message, progress }): the callback receives the
\* stage.
onProgress(log, stage) == Append(log, stage)

\* What the catch block of analyzeApk would notify if it notified nothing.
CatchSilently(log) == log

\* catch (error) { onProgress?.({ stage: 'error', ... }); throw error }
Catch(log) == onProgress(log, "error")

\* The module state after import and the first archive handed to analyzeApk.
Start(archives, manifests) ==
    /\ pc = "called"
    /\ analyses = 1
    /\ zipFiles \in archives
    /\ manifest \in manifests
    /\ scanResult = Null
    /\ rules = Null
    /\ matchCache = { }
    /\ libraryMap = << >>
    /\ libraries = << >>
    /\ calls = << >>
    /\ notified = << >>
    /\ MatcherIdle
    /\ FlightIdle
    /\ DecoderIdle
    /\ ExtractorIdle
    /\ WorkerIdle

Init == Start(Archives, Manifests)

\* analyzeApk up to its first await: stage 'extracting', then
\* await JSZip.loadAsync(file).
AnalyzeApk ==
    /\ pc = "called"
    /\ notified' = onProgress(notified, "extracting")
    /\ pc' = "extracting"
    /\ UNCHANGED << analyses, zipFiles, manifest, scanResult, rules, matchCache,
                    libraryMap, libraries, calls, matcherVars, flightVars,
                    decoderVars, extractorVars,
                    workerVars >>

\* JSZip.loadAsync settles: rejected, or resolved with an archive that has
\* or lacks AndroidManifest.xml; with it, await manifestFile.async(...).
LoadAsync ==
    /\ pc = "extracting"
    /\ \E outcome \in { "rejected", "noManifest", "manifest" } :
           IF outcome = "rejected"
           THEN notified' = Catch(notified) /\ pc' = "failed"
           ELSE IF outcome = "noManifest"
           THEN /\ notified' = Catch(onProgress(notified, "parsing"))
                /\ pc' = "failed"
           ELSE /\ notified' = onProgress(notified, "parsing")
                /\ pc' = "parsing"
    /\ UNCHANGED << analyses, zipFiles, manifest, scanResult, rules, matchCache,
                    libraryMap, libraries, calls, matcherVars, flightVars,
                    decoderVars, extractorVars,
                    workerVars >>

\* The manifest bytes arrive: convertAxmlToXml, extractManifestInfo and
\* extractComponents return (the component lists are manifest) or throw;
\* then stage 'scanning' and await scanApk(zip, parsedManifest).
ParseManifest ==
    /\ pc = "parsing"
    /\ \E thrown \in BOOLEAN :
           IF thrown
           THEN notified' = Catch(notified) /\ pc' = "failed"
           ELSE notified' = onProgress(notified, "scanning") /\ pc' = "scanning"
    /\ UNCHANGED << analyses, zipFiles, manifest, scanResult, rules, matchCache,
                    libraryMap, libraries, calls, matcherVars, flightVars,
                    decoderVars, extractorVars,
                    workerVars >>

\* const scanResult = await scanApk(zip, parsedManifest); then stage
\* 'matching' and await loadRules().
ScanApk ==
    /\ pc = "scanning"
    /\ scanResult' = << scanApk(zipFiles, manifest) >>
    /\ notified' = onProgress(notified, "matching")
    /\ pc' = "loading"
    /\ UNCHANGED << analyses, zipFiles, manifest, rules, matchCache, libraryMap,
                    libraries, calls, matcherVars, flightVars, decoderVars,
                    extractorVars,
                    workerVars >>

\* const rules = await loadRules(): the catalog store supplies the version
\* it currently holds, or null; with rules, stage 'matching' again and
\* await matchLibraries(scanResult, rules).
LoadRules ==
    /\ pc = "loading"
    /\ \E loaded \in { << bundle >> : bundle \in Bundles } \cup { Null } :
           /\ rules' = loaded
           /\ IF loaded = Null
              THEN notified' = Catch(notified) /\ pc' = "failed"
              ELSE notified' = onProgress(notified, "matching") /\ pc' = "matching"
    /\ UNCHANGED << analyses, zipFiles, manifest, scanResult, matchCache,
                    libraryMap, libraries, calls, matcherVars, flightVars,
                    decoderVars, extractorVars,
                    workerVars >>

\* const libraries = await matchLibraries(scanResult, rules): no await
\* inside, so it runs to completion; then stage 'completed' and the result.
MatchLibraries ==
    /\ pc = "matching"
    /\ \E returned \in { matchLibraries(scanResult[1], rules[1], matchCache) } :
           /\ libraries' = returned.libraries
           /\ libraryMap' = returned.libraryMap
           /\ scanResult' =
                  << [ scanResult[1] EXCEPT !.nativeLibsMap = returned.nativeLibsMap ] >>
           /\ matchCache' = returned.cache
           /\ calls' = returned.calls
    /\ notified' = onProgress(notified, "completed")
    /\ pc' = "completed"
    /\ UNCHANGED << analyses, zipFiles, manifest, rules, matcherVars,
                    flightVars, decoderVars, extractorVars,
                    workerVars >>

Next ==
    \/ AnalyzeApk
    \/ LoadAsync
    \/ ParseManifest
    \/ ScanApk
    \/ LoadRules
    \/ MatchLibraries

\* One analysis in a freshly loaded module.
Spec == Init /\ [][Next]_vars

\* The next call of analyzeApk in the same session: its locals are new, the
\* module-level matchCache is the one the earlier analyses left.
NewAnalysis ==
    /\ pc = "completed"
    /\ analyses < MaxAnalyses
    /\ analyses' = analyses + 1
    /\ zipFiles' \in SessionArchives
    /\ manifest' \in SessionManifests
    /\ scanResult' = Null
    /\ rules' = Null
    /\ libraryMap' = << >>
    /\ libraries' = << >>
    /\ calls' = << >>
    /\ notified' = << >>
    /\ pc' = "called"
    /\ UNCHANGED << matchCache, matcherVars, flightVars, decoderVars,
                    extractorVars,
                    workerVars >>

SessionInit == Start(SessionArchives, SessionManifests)

SessionNext ==
    \/ AnalyzeApk
    \/ LoadAsync
    \/ ParseManifest
    \/ ScanApk
    \/ LoadRules
    \/ MatchLibraries
    \/ NewAnalysis

\* Up to MaxAnalyses analyses in one session.
SessionSpec == SessionInit /\ [][SessionNext]_vars

\* A rules map and no call of fuzzyMatchLibrary yet.
MatcherInit ==
    /\ pc = "idle"
    /\ analyses = 0
    /\ zipFiles = << >>
    /\ manifest = ComponentLists(<< >>)
    /\ scanResult = Null
    /\ rules = Null
    /\ matchCache = { }
    /\ libraryMap = << >>
    /\ libraries = << >>
    /\ calls = << >>
    /\ notified = << >>
    /\ mRulesMap \in RulesMaps
    /\ mCalls = << >>
    /\ FlightIdle
    /\ DecoderIdle
    /\ ExtractorIdle
    /\ WorkerIdle

\* fuzzyMatchLibrary(libraryName, rulesMap), the value returned logged.
FuzzyMatch ==
    /\ Len(mCalls) < MaxCalls
    /\ \E libraryName \in MatcherNames :
           mCalls' = Append(mCalls,
                            [ libraryName |-> libraryName,
                              result |-> fuzzyMatchLibrary(libraryName, mRulesMap) ])
    /\ UNCHANGED << pc, analyses, zipFiles, manifest, scanResult, rules,
                    matchCache, libraryMap, libraries, calls, notified,
                    mRulesMap, flightVars, decoderVars, extractorVars,
                    workerVars >>

MatcherNext == FuzzyMatch

\* Direct calls of fuzzyMatchLibrary against one rules map.
MatcherSpec == MatcherInit /\ [][MatcherNext]_vars

(***************************************************************************)
(* Direct calls of fuzzyMatchLibrary with names that are, or normalise to, *)
(* names of properties of Object.prototype.                                *)
(***************************************************************************)
\* "constructor"
Key_constructor ==
    << "c", "o", "n", "s", "t", "r", "u", "c", "t", "o", "r" >>

\* "libconstructor.so"
Name_libconstructor ==
    << "l", "i", "b", "c", "o", "n", "s", "t", "r", "u", "c", "t", "o", "r", ".", "s", "o" >>

\* "libvalueOf-1.2.3.so"
Name_valueOf123 ==
    << "l", "i", "b", "v", "a", "l", "u", "e", "O", "f", "-", "1", ".", "2", ".", "3", ".", "s", "o" >>

\* "toString"
Name_toString ==
    << "t", "o", "S", "t", "r", "i", "n", "g" >>

EntryE == Entry(Key_constructor, << "E" >>, << "E" >>, "native")

\* The rules maps of MatcherSpec, and those that hold an own key "constructor".
PropertyRulesMaps ==
    RulesMaps \cup
    { << [ key |-> Key_constructor, value |-> EntryE ] >> \o t :
        t \in { r \in RulesMaps : Len(r) < MaxKeys } }

PropertyNames ==
    MatcherNames \cup
    { Key_constructor, Name_libconstructor, Name_valueOf123, Name_toString }

PropertyInit ==
    /\ pc = "idle"
    /\ analyses = 0
    /\ zipFiles = << >>
    /\ manifest = ComponentLists(<< >>)
    /\ scanResult = Null
    /\ rules = Null
    /\ matchCache = { }
    /\ libraryMap = << >>
    /\ libraries = << >>
    /\ calls = << >>
    /\ notified = << >>
    /\ mRulesMap \in PropertyRulesMaps
    /\ mCalls = << >>
    /\ FlightIdle
    /\ DecoderIdle
    /\ ExtractorIdle
    /\ WorkerIdle

\* fuzzyMatchLibrary(libraryName, rulesMap), the value returned logged.
FuzzyMatchProperty ==
    /\ mCalls = << >>
    /\ \E libraryName \in PropertyNames :
           mCalls' = << [ libraryName |-> libraryName,
                          result |-> fuzzyMatchLibrary(libraryName, mRulesMap) ] >>
    /\ UNCHANGED << pc, analyses, zipFiles, manifest, scanResult, rules,
                    matchCache, libraryMap, libraries, calls, notified,
                    mRulesMap, flightVars, decoderVars, extractorVars,
                    workerVars >>

PropertyNext == FuzzyMatchProperty

\* One direct call of fuzzyMatchLibrary against one rules map.
PropertySpec == PropertyInit /\ [][PropertyNext]_vars

(***************************************************************************)
(* Direct calls of fuzzyMatchLibraryWithCache against the partitions of    *)
(* one catalog, as matchLibraries makes them: the native table for library *)
(* names, the four component tables for component names.                   *)
(***************************************************************************)
Partitions == { "native", "activities", "services", "providers", "receivers" }

MemoNames == { Name_acra597, Name_zz, Comp_acra, Comp_b }

\* A catalog loaded, the cache of a fresh module, no call yet.
MemoInit ==
    /\ pc = "idle"
    /\ analyses = 0
    /\ zipFiles = << >>
    /\ manifest = ComponentLists(<< >>)
    /\ scanResult = Null
    /\ rules \in { << bundle >> : bundle \in Bundles }
    /\ matchCache = { }
    /\ libraryMap = << >>
    /\ libraries = << >>
    /\ calls = << >>
    /\ notified = << >>
    /\ MatcherIdle
    /\ FlightIdle
    /\ DecoderIdle
    /\ ExtractorIdle
    /\ WorkerIdle

\* fuzzyMatchLibraryWithCache(libraryName, rules.rules[partition]), the
\* value returned logged.
FuzzyMatchWithCache ==
    /\ Len(mCalls) < MaxCalls
    /\ \E libraryName \in MemoNames, partition \in Partitions :
       \E returned \in { fuzzyMatchLibraryWithCache(libraryName,
                             rules[1].rules[partition], matchCache) } :
           /\ matchCache' = returned.cache
           /\ mCalls' = Append(mCalls, [ libraryName |-> libraryName,
                                         partition |-> partition,
                                         result |-> returned.result ])
    /\ UNCHANGED << pc, analyses, zipFiles, manifest, scanResult, rules,
                    libraryMap, libraries, calls, notified,
                    mRulesMap, flightVars, decoderVars, extractorVars,
                    workerVars >>

MemoNext == FuzzyMatchWithCache

\* Lookups through the cache against the tables of one catalog.
MemoSpec == MemoInit /\ [][MemoNext]_vars

(***************************************************************************)
(* removeVersionSuffix and removeCommonSuffix alone: a base name followed  *)
(* by at most MaxTails version or build suffixes.                          *)
(***************************************************************************)
\* "libacra", "Foo"
BaseNames ==
    { << "l", "i", "b", "a", "c", "r", "a" >>,
      << "F", "o", "o" >> }

\* "-5.9.7", "_v2.0", ".5.9", "-release-1.2.3": the shapes removeVersionSuffix
\* documents.
VersionTails ==
    { << "-", "5", ".", "9", ".", "7" >>,
      << "_", "v", "2", ".", "0" >>,
      << ".", "5", ".", "9" >>,
      << "-", "r", "e", "l", "e", "a", "s", "e", "-", "1", ".", "2", ".", "3" >> }

\* Suffixes of removeCommonSuffix's list, "-Debug" in another case, and "_12".
BuildTails ==
    { << "-", "d", "e", "b", "u", "g" >>,
      << "-", "r", "e", "l", "e", "a", "s", "e" >>,
      << "_", "x", "8", "6" >>,
      << "_", "x", "8", "6", "_", "6", "4" >>,
      << "-", "a", "r", "m", "6", "4", "-", "v", "8", "a" >>,
      << "-", "D", "e", "b", "u", "g" >>,
      << "_", "1", "2" >> }

\* The number of suffixes after a base name.
MaxTails == 2

RECURSIVE Concat(_)
Concat(seqs) == IF seqs = << >> THEN << >> ELSE Head(seqs) \o Concat(Tail(seqs))

NormalizerNames ==
    { base \o Concat(tails) :
        base \in BaseNames,
        tails \in UNION { [ 1..n -> VersionTails \cup BuildTails ] : n \in 0..MaxTails } }

\* No call of the normaliser yet.
NormalizerInit ==
    /\ pc = "idle"
    /\ analyses = 0
    /\ zipFiles = << >>
    /\ manifest = ComponentLists(<< >>)
    /\ scanResult = Null
    /\ rules = Null
    /\ matchCache = { }
    /\ libraryMap = << >>
    /\ libraries = << >>
    /\ calls = << >>
    /\ notified = << >>
    /\ MatcherIdle
    /\ FlightIdle
    /\ DecoderIdle
    /\ ExtractorIdle
    /\ WorkerIdle

\* removeVersionSuffix(name), the value returned logged.
RemoveVersionSuffix ==
    /\ mCalls = << >>
    /\ \E name \in NormalizerNames :
           mCalls' = << [ called |-> "removeVersionSuffix", name |-> name,
                          result |-> removeVersionSuffix(name) ] >>
    /\ UNCHANGED << pc, analyses, zipFiles, manifest, scanResult, rules,
                    matchCache, libraryMap, libraries, calls, notified,
                    mRulesMap, flightVars, decoderVars, extractorVars,
                    workerVars >>

\* removeCommonSuffix(name), the value returned logged.
RemoveCommonSuffix ==
    /\ mCalls = << >>
    /\ \E name \in NormalizerNames :
           mCalls' = << [ called |-> "removeCommonSuffix", name |-> name,
                          result |-> removeCommonSuffix(name) ] >>
    /\ UNCHANGED << pc, analyses, zipFiles, manifest, scanResult, rules,
                    matchCache, libraryMap, libraries, calls, notified,
                    mRulesMap, flightVars, decoderVars, extractorVars,
                    workerVars >>

NormalizerNext ==
    \/ RemoveVersionSuffix
    \/ RemoveCommonSuffix

\* One call of a normaliser function on one name.
NormalizerSpec == NormalizerInit /\ [][NormalizerNext]_vars

(***************************************************************************)
(* scanNativeLibraries alone, over archives that also hold entries of      *)
(* other shapes.                                                           *)
(***************************************************************************)
\* "lib/libzz.so": directly under lib/
Path_zz_top == << "l", "i", "b", "/", "l", "i", "b", "z", "z", ".", "s", "o" >>

\* "lib/x86/sub/libzz.so": one directory too deep
Path_zz_deep == << "l", "i", "b", "/", "x", "8", "6", "/", "s", "u", "b", "/", "l", "i", "b", "z", "z", ".", "s", "o" >>

\* "lib/x86/libzz.txt": not a shared object
Path_zz_txt == << "l", "i", "b", "/", "x", "8", "6", "/", "l", "i", "b", "z", "z", ".", "t", "x", "t" >>

\* "assets/x86/libzz.so": not under lib/
Path_zz_assets == << "a", "s", "s", "e", "t", "s", "/", "x", "8", "6", "/", "l", "i", "b", "z", "z", ".", "s", "o" >>

\* "lib/x86/": the directory entry of an ABI directory
Path_x86_dir == << "l", "i", "b", "/", "x", "8", "6", "/" >>

Directory(relativePath) == [ relativePath |-> relativePath, dir |-> TRUE ]

\* The entries a scanned archive is drawn from, in archive order.
ScannerUniverse ==
    << File(Path_zz_deep), File(Path_zz_x86), Directory(Path_x86_dir),
       File(Path_acra_arm64), File(Path_zz_top), File(Path_acra597_armeabi),
       File(Path_zz_txt), File(Path_acra597_arm64), File(Path_zz_assets) >>

ScannerArchives ==
    { Restrict(ScannerUniverse, keep, Len(ScannerUniverse)) :
        keep \in SUBSET (1..Len(ScannerUniverse)) }

\* An archive loaded and scanNativeLibraries not called yet.
ScannerInit ==
    /\ pc = "listing"
    /\ analyses = 0
    /\ zipFiles \in ScannerArchives
    /\ manifest = ComponentLists(<< >>)
    /\ scanResult = Null
    /\ rules = Null
    /\ matchCache = { }
    /\ libraryMap = << >>
    /\ libraries = << >>
    /\ calls = << >>
    /\ notified = << >>
    /\ MatcherIdle
    /\ FlightIdle
    /\ DecoderIdle
    /\ ExtractorIdle
    /\ WorkerIdle

\* scanNativeLibraries(zip), the value returned kept.
ScanNativeLibraries ==
    /\ pc = "listing"
    /\ scanResult' = << scanNativeLibraries(zipFiles) >>
    /\ pc' = "listed"
    /\ UNCHANGED << analyses, zipFiles, manifest, rules, matchCache, libraryMap,
                    libraries, calls, notified, matcherVars, flightVars,
                    decoderVars, extractorVars,
                    workerVars >>

ScannerNext == ScanNativeLibraries

\* One call of scanNativeLibraries on one archive.
ScannerSpec == ScannerInit /\ [][ScannerNext]_vars

(***************************************************************************)
(* The binary XML decoder (axmlParser.ts): analyse, the listener of parse  *)
(* and convertAxmlToXml.                                                   *)
(*                                                                         *)
(* A buffer is the sequence of its bytes; offsets count from 0 as in the   *)
(* source.  A 32-bit word is handled as its four bytes, low byte first,    *)
(* where the source compares it with a tag or with 0xFFFFFFFF, and as a    *)
(* number where the source computes with it.  Numbers from Huge on stand   *)
(* for one another: they are offsets, sizes, counts or indices beyond any  *)
(* buffer and any string table.                                            *)
(***************************************************************************)
WORD_SIZE == 4

Huge == 536870912

WORD_START_DOCUMENT == << 3, 0, 8, 0 >>

WORD_STRING_TABLE == << 1, 0, 28, 0 >>

WORD_RES_TABLE == << 128, 1, 8, 0 >>

WORD_START_NS == << 0, 1, 16, 0 >>

WORD_END_NS == << 1, 1, 16, 0 >>

WORD_START_TAG == << 2, 1, 16, 0 >>

WORD_END_TAG == << 3, 1, 16, 0 >>

WORD_TEXT == << 4, 1, 16, 0 >>

WORD_EOS == << 255, 255, 255, 255 >>

TYPE_STRING == << 8, 0, 0, 3 >>

TYPE_INT == << 8, 0, 0, 16 >>

TYPE_FLAGS == << 8, 0, 0, 17 >>

TYPE_BOOL == << 8, 0, 0, 18 >>

KnownWords ==
    { WORD_START_DOCUMENT, WORD_STRING_TABLE, WORD_RES_TABLE, WORD_START_NS,
      WORD_END_NS, WORD_START_TAG, WORD_END_TAG, WORD_TEXT, WORD_EOS }

\* DataView and the typed array constructors throw a RangeError unless
\* the bytes asked for lie in the buffer.
InBuffer(b, offset, size) == offset >= 0 /\ offset + size <= Len(b)

Bytes(b, offset, size) == SubSeq(b, offset + 1, offset + size)

ToUint32(word) ==
    IF word[4] >= 32 THEN Huge
    ELSE word[1] + 256 * word[2] + 65536 * word[3] + 16777216 * word[4]

\* dataView.getUint32(offset, true), getUint16(offset, true), getUint8(offset)
getUint32(b, offset) == ToUint32(Bytes(b, offset, 4))

getUint16(b, offset) == b[offset + 1] + 256 * b[offset + 2]

getUint8(b, offset) == b[offset + 1]

\* The characters of code 32 to 126 (the grave accent written U+0060).
PrintableAscii ==
    << " ", "!", "\"", "#", "$", "%", "&", "'", "(", ")",
       "*", "+", ",", "-", ".", "/", "0", "1", "2", "3",
       "4", "5", "6", "7", "8", "9", ":", ";", "<", "=",
       ">", "?", "@", "A", "B", "C", "D", "E", "F", "G",
       "H", "I", "J", "K", "L", "M", "N", "O", "P", "Q",
       "R", "S", "T", "U", "V", "W", "X", "Y", "Z", "[",
       "\\", "]", "^", "_", "U+0060", "a", "b", "c", "d", "e",
       "f", "g", "h", "i", "j", "k", "l", "m", "n", "o",
       "p", "q", "r", "s", "t", "u", "v", "w", "x", "y",
       "z", "{", "|", "}", "~" >>

\* String.fromCharCode, and TextDecoder on one byte below 128; the buffers
\* of the model hold printable ASCII only.
fromCharCode(code) ==
    IF code \in 32..126 THEN PrintableAscii[code - 31] ELSE "U+FFFD"

Returned(value) == [ thrown |-> "", value |-> value ]

Thrown(error) == [ thrown |-> error, value |-> << >> ]

\* getStringFromStringTable(offset): byte length and bytes (UTF-8, flag
\* 0x100) or unit count and 16-bit units.
getStringFromStringTable(b, mFlags, offset) ==
    IF mFlags[2] % 2 = 1
    THEN IF ~InBuffer(b, offset + 1, 1) THEN Thrown("RangeError")
         ELSE IF ~InBuffer(b, offset + 2, getUint8(b, offset + 1))
         THEN Thrown("RangeError")
         ELSE Returned([ i \in 1..getUint8(b, offset + 1) |->
                           fromCharCode(getUint8(b, offset + 1 + i)) ])
    ELSE IF ~InBuffer(b, offset, 2) THEN Thrown("RangeError")
         ELSE IF \/ offset % 2 # 0
                 \/ ~InBuffer(b, offset + 2, 2 * getUint16(b, offset))
         THEN Thrown("RangeError")
         ELSE Returned([ i \in 1..getUint16(b, offset) |->
                           fromCharCode(getUint16(b, offset + 2 * i)) ])

\* for (i < mStringsCount) mStringsTable[i] = getStringFromStringTable(
\*     strOffset + getUint32(mParserOffset + (i + 7) * WORD_SIZE))
RECURSIVE ReadStrings(_, _, _, _, _, _)
RECURSIVE StringRead(_, _, _, _, _, _, _)
ReadStrings(b, base, mFlags, strOffset, mStringsCount, table) ==
    IF Len(table) >= mStringsCount THEN Returned(table)
    ELSE IF ~InBuffer(b, base + (Len(table) + 7) * WORD_SIZE, WORD_SIZE)
    THEN Thrown("RangeError")
    ELSE StringRead(b, base, mFlags, strOffset, mStringsCount, table,
                    getStringFromStringTable(
                        b, mFlags,
                        strOffset + getUint32(b, base + (Len(table) + 7) * WORD_SIZE)))

StringRead(b, base, mFlags, strOffset, mStringsCount, table, read) ==
    IF read.thrown # "" THEN read
    ELSE ReadStrings(b, base, mFlags, strOffset, mStringsCount,
                     Append(table, read.value))

\* getString(index): null unless 0 <= index < mStringsCount; mStringsCount
\* is undefined before the first string table, and the test is then false.
getString(d, index) ==
    IF d.mStringsCount # Null /\ index < d.mStringsCount[1]
    THEN << d.mStringsTable[index + 1] >>
    ELSE Null

\* x is truthy: neither null nor the empty string.
Truthy(x) == x # Null /\ x[1] # << >>

\* x || ''
OrEmpty(x) == IF Truthy(x) THEN x[1] ELSE << >>

Throw(d, error) == [ d EXCEPT !.status = error ]

\* The index 0xFFFFFFFF: no namespace, no raw value.
NoString == << 255, 255, 255, 255 >>

\* mNamespaces.delete(key)
MapDelete(map, key) == SelectSeq(map, LAMBDA e : e.key # key)

\* A call of one callback of the listener, as analyse makes it.
Heard(type, prefix, uri, localName, qName, attrs) ==
    [ type |-> type, prefix |-> prefix, uri |-> uri, localName |-> localName,
      qName |-> qName, attrs |-> attrs ]

\* The node of parse: root is the first node made, a children array holds
\* the places of the child nodes among the nodes made.
AXMLNode(uri, localName, qName, attrs) ==
    [ uri |-> uri, localName |-> localName, qName |-> qName,
      prefixes |-> << >>, attrs |-> attrs, children |-> << >> ]

\* analyse and parse entered: no string table, no namespace, nodes = [root],
\* prefixes = [[]].
EnterParse ==
    [ mParserOffset |-> 0,
      mStringsCount |-> Null,
      mStringsTable |-> << >>,
      mFlags        |-> << 0, 0, 0, 0 >>,
      mNamespaces   |-> << >>,
      heap          |-> << AXMLNode(<< >>, << >>, << >>, << >>) >>,
      nodes         |-> << 1 >>,
      prefixes      |-> << << >> >>,
      events        |-> << >>,
      xml           |-> << >>,
      status        |-> "running" ]

\* startPrefixMapping: prefixes[prefixes.length - 1].push([prefix, uri])
startPrefixMapping(d, prefix, uri) ==
    IF Len(d.prefixes) = 0 THEN Throw(d, "TypeError")
    ELSE [ d EXCEPT
             !.prefixes[Len(d.prefixes)] = Append(@, << prefix, uri >>),
             !.events = Append(@, Heard("startPrefixMapping", prefix, uri,
                                        << >>, << >>, << >>)) ]

\* endPrefixMapping: prefixes[prefixes.length - 1].pop()
endPrefixMapping(d, prefix, uri) ==
    IF Len(d.prefixes) = 0 THEN Throw(d, "TypeError")
    ELSE [ d EXCEPT
             !.prefixes[Len(d.prefixes)] =
                 IF Len(@) = 0 THEN @ ELSE SubSeq(@, 1, Len(@) - 1),
             !.events = Append(@, Heard("endPrefixMapping", prefix, uri,
                                        << >>, << >>, << >>)) ]

\* The startElement callback if it pushed every node into root.children.
startElementUnderRoot(d, uri, localName, qName, attrs) ==
    IF Len(d.nodes) = 0 THEN Throw(d, "TypeError")
    ELSE [ d EXCEPT
             !.heap = Append([ @ EXCEPT ![1].children = Append(@, Len(d.heap) + 1) ],
                             AXMLNode(uri, localName, qName, attrs)),
             !.nodes = Append(@, Len(d.heap) + 1),
             !.prefixes = Append(@, << >>),
             !.events = Append(@, Heard("startElement", << >>, uri, localName,
                                        qName, attrs)) ]

\* startElement: getLatestNode().children.push(node); nodes.push(node);
\* prefixes.push([])
startElement(d, uri, localName, qName, attrs) ==
    IF Len(d.nodes) = 0 THEN Throw(d, "TypeError")
    ELSE [ d EXCEPT
             !.heap = Append([ @ EXCEPT ![d.nodes[Len(d.nodes)]].children =
                                           Append(@, Len(d.heap) + 1) ],
                             AXMLNode(uri, localName, qName, attrs)),
             !.nodes = Append(@, Len(d.heap) + 1),
             !.prefixes = Append(@, << >>),
             !.events = Append(@, Heard("startElement", << >>, uri, localName,
                                        qName, attrs)) ]

\* The endElement callback if it gave the node the prefixes of its own level.
endElementOwnPrefixes(d, uri, localName) ==
    IF Len(d.prefixes) <= 1 \/ Len(d.nodes) = 0
    THEN Throw([ d EXCEPT !.nodes = SubSeq(@, 1, Len(@) - 1),
                          !.prefixes = SubSeq(@, 1, Len(@) - 1) ],
               "TypeError")
    ELSE [ d EXCEPT
             !.heap[d.nodes[Len(d.nodes)]].prefixes = d.prefixes[Len(d.prefixes)],
             !.nodes = SubSeq(@, 1, Len(@) - 1),
             !.prefixes = SubSeq(@, 1, Len(@) - 1),
             !.events = Append(@, Heard("endElement", << >>, uri, localName,
                                        << >>, << >>)) ]

\* endElement: node = nodes.pop(); prefixes.pop();
\* node.prefixes = prefixes[prefixes.length - 1].slice(0): a TypeError when
\* prefixes is left empty (the node popped was root) or nothing was popped;
\* the two pops have happened by then.
endElement(d, uri, localName) ==
    IF Len(d.prefixes) <= 1 \/ Len(d.nodes) = 0
    THEN Throw([ d EXCEPT !.nodes = SubSeq(@, 1, Len(@) - 1),
                          !.prefixes = SubSeq(@, 1, Len(@) - 1) ],
               "TypeError")
    ELSE [ d EXCEPT
             !.heap[d.nodes[Len(d.nodes)]].prefixes = d.prefixes[Len(d.prefixes) - 1],
             !.nodes = SubSeq(@, 1, Len(@) - 1),
             !.prefixes = SubSeq(@, 1, Len(@) - 1),
             !.events = Append(@, Heard("endElement", << >>, uri, localName,
                                        << >>, << >>)) ]

\* parseStartDocument: parse has no startDocument callback.
parseStartDocument(d) == [ d EXCEPT !.mParserOffset = @ + 2 * WORD_SIZE ]

StringTableRead(d, chunk, mStringsCount, mFlags, read) ==
    IF read.thrown # "" THEN Throw(d, read.thrown)
    ELSE [ d EXCEPT !.mStringsCount = << mStringsCount >>,
                    !.mStringsTable = read.value,
                    !.mFlags = mFlags,
                    !.mParserOffset = @ + chunk ]

parseStringTable(b, d) ==
    IF ~InBuffer(b, d.mParserOffset + WORD_SIZE, 5 * WORD_SIZE)
    THEN Throw(d, "RangeError")
    ELSE StringTableRead(
             d,
             getUint32(b, d.mParserOffset + WORD_SIZE),
             getUint32(b, d.mParserOffset + 2 * WORD_SIZE),
             Bytes(b, d.mParserOffset + 4 * WORD_SIZE, 4),
             ReadStrings(b, d.mParserOffset,
                         Bytes(b, d.mParserOffset + 4 * WORD_SIZE, 4),
                         d.mParserOffset + getUint32(b, d.mParserOffset + 5 * WORD_SIZE),
                         getUint32(b, d.mParserOffset + 2 * WORD_SIZE),
                         << >>))

\* mResCount = chunk / 4 - 2; the loop i < mResCount reads the words
\* i + 2 for i below the next whole number.
ResourceTableRead(b, d, chunk) ==
    IF /\ (chunk + 3) \div 4 - 2 > 0
       /\ ~InBuffer(b, d.mParserOffset + ((chunk + 3) \div 4 - 1) * WORD_SIZE, WORD_SIZE)
    THEN Throw(d, "RangeError")
    ELSE [ d EXCEPT !.mParserOffset = @ + chunk ]

parseResourceTable(b, d) ==
    IF ~InBuffer(b, d.mParserOffset + WORD_SIZE, WORD_SIZE)
    THEN Throw(d, "RangeError")
    ELSE ResourceTableRead(b, d, getUint32(b, d.mParserOffset + WORD_SIZE))

NamespaceHeard(heard, start, uri, prefix) ==
    IF heard.status # "running" THEN heard
    ELSE [ heard EXCEPT
             !.mNamespaces =
                 IF start
                 THEN IF Truthy(uri) /\ Truthy(prefix)
                      THEN MapSet(@, uri[1], prefix[1]) ELSE @
                 ELSE IF Truthy(uri) THEN MapDelete(@, uri[1]) ELSE @,
             !.mParserOffset = @ + 6 * WORD_SIZE ]

NamespaceRead(d, start, uri, prefix) ==
    NamespaceHeard(IF Truthy(uri) /\ Truthy(prefix)
                   THEN IF start
                        THEN startPrefixMapping(d, prefix[1], uri[1])
                        ELSE endPrefixMapping(d, prefix[1], uri[1])
                   ELSE d,
                   start, uri, prefix)

parseNamespace(b, d, start) ==
    IF ~InBuffer(b, d.mParserOffset + 4 * WORD_SIZE, 2 * WORD_SIZE)
    THEN Throw(d, "RangeError")
    ELSE NamespaceRead(d, start,
                       getString(d, getUint32(b, d.mParserOffset + 5 * WORD_SIZE)),
                       getString(d, getUint32(b, d.mParserOffset + 4 * WORD_SIZE)))

\* getAttributeValue(type, data): the string of the pool, the number, the
\* boolean, or a text formatted from type and data.
getAttributeValue(d, type, data) ==
    IF type = TYPE_STRING
    THEN [ kind |-> "string", string |-> OrEmpty(getString(d, ToUint32(data))),
           type |-> type, data |-> data ]
    ELSE [ kind |-> IF type \in { TYPE_INT, TYPE_FLAGS } THEN "number"
                    ELSE IF type = TYPE_BOOL THEN "boolean" ELSE "formatted",
           string |-> << >>, type |-> type, data |-> data ]

AttributeRead(d, attrNSIdx, attrNameIdx, attrValueIdx, attrType, attrData, uri) ==
    [ name      |-> OrEmpty(getString(d, attrNameIdx)),
      namespace |-> IF /\ attrNSIdx # NoString
                       /\ Truthy(uri)
                       /\ MapHas(d.mNamespaces, OrEmpty(uri))
                    THEN uri ELSE Null,
      prefix    |-> IF /\ attrNSIdx # NoString
                       /\ Truthy(uri)
                       /\ MapHas(d.mNamespaces, OrEmpty(uri))
                    THEN << MapGet(d.mNamespaces, OrEmpty(uri)) >> ELSE Null,
      value     |-> IF attrValueIdx = NoString
                    THEN getAttributeValue(d, attrType, attrData)
                    ELSE [ kind |-> "string",
                           string |-> OrEmpty(getString(d, ToUint32(attrValueIdx))),
                           type |-> attrType, data |-> attrData ] ]

parseAttribute(b, d, offset) ==
    AttributeRead(d,
                  Bytes(b, offset, 4),
                  getUint32(b, offset + WORD_SIZE),
                  Bytes(b, offset + 2 * WORD_SIZE, 4),
                  Bytes(b, offset + 3 * WORD_SIZE, 4),
                  Bytes(b, offset + 4 * WORD_SIZE, 4),
                  getString(d, getUint32(b, offset)))

\* for (a < attrCount) { attrs[a] = parseAttribute(); mParserOffset += 5 * 4 }
RECURSIVE ReadAttributes(_, _, _, _, _)
ReadAttributes(b, d, offset, attrCount, attrs) ==
    IF Len(attrs) >= attrCount THEN Returned(attrs)
    ELSE IF ~InBuffer(b, offset, 5 * WORD_SIZE) THEN Thrown("RangeError")
    ELSE ReadAttributes(b, d, offset + 5 * 4, attrCount,
                        Append(attrs, parseAttribute(b, d, offset)))

StartTagRead(d, uriIdx, name, uri, attrCount, attrs) ==
    IF attrs.thrown # "" THEN Throw(d, attrs.thrown)
    ELSE startElement(
             [ d EXCEPT !.mParserOffset = @ + 9 * WORD_SIZE + attrCount * 5 * 4 ],
             uri, name,
             IF uriIdx # NoString /\ MapHas(d.mNamespaces, uri)
             THEN MapGet(d.mNamespaces, uri) \o << ":" >> \o name
             ELSE name,
             attrs.value)

parseStartTag(b, d) ==
    IF ~InBuffer(b, d.mParserOffset + 4 * WORD_SIZE, 2 * WORD_SIZE + 6)
    THEN Throw(d, "RangeError")
    ELSE StartTagRead(
             d,
             Bytes(b, d.mParserOffset + 4 * WORD_SIZE, 4),
             OrEmpty(getString(d, getUint32(b, d.mParserOffset + 5 * WORD_SIZE))),
             IF Bytes(b, d.mParserOffset + 4 * WORD_SIZE, 4) = NoString THEN << >>
             ELSE OrEmpty(getString(d, getUint32(b, d.mParserOffset + 4 * WORD_SIZE))),
             getUint16(b, d.mParserOffset + 7 * WORD_SIZE),
             ReadAttributes(b, d, d.mParserOffset + 9 * WORD_SIZE,
                            getUint16(b, d.mParserOffset + 7 * WORD_SIZE), << >>))

\* parseText: parse has no characterData callback.
parseText(b, d) ==
    IF ~InBuffer(b, d.mParserOffset + 4 * WORD_SIZE, WORD_SIZE)
    THEN Throw(d, "RangeError")
    ELSE [ d EXCEPT !.mParserOffset = @ + 7 * WORD_SIZE ]

EndTagHeard(heard) ==
    IF heard.status # "running" THEN heard
    ELSE [ heard EXCEPT !.mParserOffset = @ + 6 * WORD_SIZE ]

parseEndTag(b, d) ==
    IF ~InBuffer(b, d.mParserOffset + 4 * WORD_SIZE, 2 * WORD_SIZE)
    THEN Throw(d, "RangeError")
    ELSE EndTagHeard(
             endElement(
                 d,
                 IF Bytes(b, d.mParserOffset + 4 * WORD_SIZE, 4) = NoString THEN << >>
                 ELSE OrEmpty(getString(d, getUint32(b, d.mParserOffset + 4 * WORD_SIZE))),
                 OrEmpty(getString(d, getUint32(b, d.mParserOffset + 5 * WORD_SIZE)))))

\* The default branch if it stepped over a chunk header of two words.
SkipHeader(d) == [ d EXCEPT !.mParserOffset = @ + 2 * WORD_SIZE ]

\* default: mParserOffset += WORD_SIZE
SkipWord(d) == [ d EXCEPT !.mParserOffset = @ + WORD_SIZE ]

\* for (i < depth) buff.push("\t")
Tabs(depth) == [ i \in 1..depth |-> "\t" ]

DecimalDigits == << "0", "1", "2", "3", "4", "5", "6", "7", "8", "9" >>

\* String(n) of a number n >= 0.
RECURSIVE Decimal(_)
Decimal(n) ==
    IF n < 10 THEN << DecimalDigits[n + 1] >>
    ELSE Append(Decimal(n \div 10), DecimalDigits[(n % 10) + 1])

UpperHexDigits ==
    << "0", "1", "2", "3", "4", "5", "6", "7", "8", "9",
       "A", "B", "C", "D", "E", "F" >>

\* word.toString(16).toUpperCase().padStart(8, '0') of a little-endian word.
Hex8(word) ==
    Concat([ i \in 1..4 |-> << UpperHexDigits[(word[5 - i] \div 16) + 1],
                               UpperHexDigits[(word[5 - i] % 16) + 1] >> ])

TYPE_ID_REF == << 8, 0, 0, 1 >>

TYPE_ATTR_REF == << 8, 0, 0, 2 >>

TYPE_DIMEN == << 8, 0, 0, 5 >>

TYPE_FRACTION == << 8, 0, 0, 6 >>

TYPE_FLOAT == << 8, 0, 0, 4 >>

TYPE_COLOR == << 8, 0, 0, 28 >>

TYPE_COLOR2 == << 8, 0, 0, 29 >>

\* The text '' + attr.value: the string, the number in decimal (numbers up
\* to Huge), true or false, or the text getAttributeValue formats from type
\* and data.  The arithmetic of TYPE_DIMEN, TYPE_FRACTION and TYPE_FLOAT is
\* not written out: the operator is undefined for them.
ValueText(value) ==
    CASE value.kind = "string"  -> value.string
      [] value.kind = "number" /\ ToUint32(value.data) < Huge ->
             Decimal(ToUint32(value.data))
      [] value.kind = "boolean" ->
             IF value.data # << 0, 0, 0, 0 >> THEN << "t", "r", "u", "e" >>
             ELSE << "f", "a", "l", "s", "e" >>
      [] value.kind = "formatted" /\ value.type \in { TYPE_COLOR, TYPE_COLOR2 } ->
             << "#" >> \o Hex8(value.data)
      [] value.kind = "formatted" /\ value.type = TYPE_ID_REF ->
             << "@", "i", "d", "/", "0", "x" >> \o Hex8(value.data)
      [] value.kind = "formatted" /\ value.type = TYPE_ATTR_REF ->
             << "?", "i", "d", "/", "0", "x" >> \o Hex8(value.data)
      [] value.kind = "formatted"
           /\ value.type \notin { TYPE_COLOR, TYPE_COLOR2, TYPE_ID_REF, TYPE_ATTR_REF,
                                  TYPE_DIMEN, TYPE_FRACTION, TYPE_FLOAT } ->
             Hex8(value.type) \o << "/", "0", "x" >> \o Hex8(value.data)

\* " xmlns:" and prefix[0] + '="' + prefix[1] + '"'
DeclarationText(prefix) ==
    << " ", "x", "m", "l", "n", "s", ":" >> \o prefix[1] \o << "=", "\"" >> \o prefix[2] \o << "\"" >>

\* " ", attr.prefix + ":" when there is a prefix, attr.name + '="' + value + '"'
AttributeText(attr) ==
    << " " >>
    \o (IF Truthy(attr.prefix) THEN attr.prefix[1] \o << ":" >> ELSE << >>)
    \o attr.name \o << "=", "\"" >> \o ValueText(attr.value) \o << "\"" >>

\* The line of the start-tag of a node.
StartTagText(node, depth) ==
    Tabs(depth) \o << "<" >> \o node.qName
    \o Concat([ i \in 1..Len(node.prefixes) |-> DeclarationText(node.prefixes[i]) ])
    \o Concat([ i \in 1..Len(node.attrs) |-> AttributeText(node.attrs[i]) ])
    \o (IF Len(node.children) = 0 THEN << " ", "/" >> ELSE << >>)
    \o << ">", "\n" >>

\* printTree(node, depth) for the node at place n of heap.
RECURSIVE printTree(_, _, _)
printTree(heap, n, depth) ==
    StartTagText(heap[n], depth)
    \o Concat([ i \in 1..Len(heap[n].children) |->
                  printTree(heap, heap[n].children[i], depth + 1) ])
    \o (IF Len(heap[n].children) > 0
        THEN Tabs(depth) \o << "<", "/" >> \o heap[n].qName \o << ">", "\n" >>
        ELSE << >>)

\* '<?xml version="1.0" encoding="utf-8"?>\n'
XmlDeclaration ==
    << "<", "?", "x", "m", "l", " ", "v", "e", "r", "s", "i", "o", "n", "=", "\"", "1", ".", "0", "\"", " ", "e", "n", "c", "o", "d", "i", "n", "g", "=", "\"", "u", "t", "f", "-", "8", "\"", "?", ">", "\n" >>

\* return root.children[0] of parse, then printTree(tree, 0) of
\* convertAxmlToXml: a TypeError when there is no tree.
PrintTree(d) ==
    IF Len(d.heap[1].children) = 0 THEN Throw(d, "TypeError")
    ELSE [ d EXCEPT !.status = "converted",
                    !.xml = XmlDeclaration
                            \o printTree(d.heap, d.heap[1].children[1], 0) ]

Dispatch(b, d, word0) ==
    CASE word0 = WORD_START_DOCUMENT -> parseStartDocument(d)
      [] word0 = WORD_STRING_TABLE   -> parseStringTable(b, d)
      [] word0 = WORD_RES_TABLE      -> parseResourceTable(b, d)
      [] word0 = WORD_START_NS       -> parseNamespace(b, d, TRUE)
      [] word0 = WORD_END_NS         -> parseNamespace(b, d, FALSE)
      [] word0 = WORD_START_TAG      -> parseStartTag(b, d)
      [] word0 = WORD_END_TAG        -> parseEndTag(b, d)
      [] word0 = WORD_TEXT           -> parseText(b, d)
      [] word0 = WORD_EOS            -> PrintTree(d)
      [] OTHER                       -> SkipWord(d)

\* One turn of the loop of analyse: word0 = getUint32(mParserOffset), then
\* the switch.
analyseStep(b, d) ==
    IF ~InBuffer(b, d.mParserOffset, WORD_SIZE) THEN Throw(d, "RangeError")
    ELSE Dispatch(b, d, Bytes(b, d.mParserOffset, 4))

(***************************************************************************)
(* Binary XML buffers: the layout the decoder reads, written out.          *)
(***************************************************************************)
U16(n) == << n % 256, n \div 256 >>

U32(n) == << n % 256, (n \div 256) % 256, (n \div 65536) % 256, n \div 16777216 >>

RECURSIVE Flatten(_)
Flatten(seqs) == IF seqs = << >> THEN << >> ELSE Head(seqs) \o Flatten(Tail(seqs))

Zeros(n) == [ i \in 1..n |-> 0 ]

CharCode(c) == 31 + CHOOSE i \in 1..Len(PrintableAscii) : PrintableAscii[i] = c

\* A string of a UTF-8 pool: character count, byte count, bytes, NUL.
Utf8String(s) == << Len(s), Len(s) >> \o [ i \in 1..Len(s) |-> CharCode(s[i]) ] \o << 0 >>

\* A string of a UTF-16 pool: unit count, units, NUL unit.
Utf16String(s) ==
    U16(Len(s)) \o Flatten([ i \in 1..Len(s) |-> U16(CharCode(s[i])) ]) \o U16(0)

PoolString(s, utf8) == IF utf8 THEN Utf8String(s) ELSE Utf16String(s)

\* The offset of string k in the string data.
RECURSIVE PoolOffset(_, _, _)
PoolOffset(strings, k, utf8) ==
    IF k = 1 THEN 0
    ELSE PoolOffset(strings, k - 1, utf8) + Len(PoolString(strings[k - 1], utf8))

PoolData(strings, utf8) == Flatten([ k \in 1..Len(strings) |-> PoolString(strings[k], utf8) ])

Padding(n) == Zeros((WORD_SIZE - (n % WORD_SIZE)) % WORD_SIZE)

\* A string table chunk: tag, chunk size, string count, style count,
\* flags, strings start, styles start, string offsets, string data.
StringTableChunk(strings, utf8) ==
    WORD_STRING_TABLE
    \o U32(7 * WORD_SIZE + Len(strings) * WORD_SIZE + Len(PoolData(strings, utf8))
           + Len(Padding(Len(PoolData(strings, utf8)))))
    \o U32(Len(strings))
    \o U32(0)
    \o (IF utf8 THEN << 0, 1, 0, 0 >> ELSE << 0, 0, 0, 0 >>)
    \o U32(7 * WORD_SIZE + Len(strings) * WORD_SIZE)
    \o U32(0)
    \o Flatten([ k \in 1..Len(strings) |-> U32(PoolOffset(strings, k, utf8)) ])
    \o PoolData(strings, utf8)
    \o Padding(Len(PoolData(strings, utf8)))

\* A resource table chunk: tag, chunk size, resource ids.
ResourceTableChunk(ids) == WORD_RES_TABLE \o U32(2 * WORD_SIZE + Len(Flatten(ids))) \o Flatten(ids)

\* The words every node chunk begins with: tag, chunk size, line, comment.
NodeHeader(tag, size) == tag \o U32(size) \o U32(1) \o NoString

NamespaceChunk(tag, prefixIdx, uriIdx) == NodeHeader(tag, 6 * WORD_SIZE) \o prefixIdx \o uriIdx

\* An attribute: namespace, name, raw value, value type, value data.
AttributeBytes(attrNSIdx, attrNameIdx, attrValueIdx, attrType, attrData) ==
    attrNSIdx \o attrNameIdx \o attrValueIdx \o attrType \o attrData

\* A start-tag chunk: header, namespace, name, attribute start and size,
\* attribute count, id, class and style index, attributes of five words.
StartTagChunk(uriIdx, nameIdx, attrs) ==
    NodeHeader(WORD_START_TAG, 9 * WORD_SIZE + Len(attrs))
    \o uriIdx \o nameIdx \o U16(20) \o U16(20)
    \o U16(Len(attrs) \div 20) \o U16(0) \o U16(0) \o U16(0)
    \o attrs

EndTagChunk(uriIdx, nameIdx) == NodeHeader(WORD_END_TAG, 6 * WORD_SIZE) \o uriIdx \o nameIdx

\* A text chunk: header, string, and a typed value of two words.
TextChunk(strIndex) == NodeHeader(WORD_TEXT, 7 * WORD_SIZE) \o strIndex \o << 8, 0, 0, 0 >> \o U32(0)

\* "manifest", "activity", "android", "urn:a", "name", "x.Main", "t"
Pool ==
    << << "m", "a", "n", "i", "f", "e", "s", "t" >>,
       << "a", "c", "t", "i", "v", "i", "t", "y" >>,
       << "a", "n", "d", "r", "o", "i", "d" >>,
       << "u", "r", "n", ":", "a" >>,
       << "n", "a", "m", "e" >>,
       << "x", ".", "M", "a", "i", "n" >>,
       << "t" >> >>

\* What a buffer is written from: a start-tag (ns, name, attrs), an
\* end-tag, a start or end of a namespace (ns the URI, name the prefix), a
\* text (name the string) or a word of no chunk (name the word).
Event(op, ns, name, attrs) == [ op |-> op, ns |-> ns, name |-> name, attrs |-> attrs ]

\* <manifest>
StartManifest == Event("start", NoString, U32(0), << >>)

\* <activity android:name="x.Main">, the attribute in namespace urn:a
StartActivity ==
    Event("start", NoString, U32(1),
          AttributeBytes(U32(3), U32(4), U32(5), TYPE_STRING, U32(5)))

\* <activity> in namespace urn:a
StartQualified == Event("start", U32(3), U32(1), << >>)

EndTag == Event("end", NoString, NoString, << >>)

\* xmlns:android="urn:a" and xmlns:t="urn:a", and their ends
StartNsAndroid == Event("startNs", U32(3), U32(2), << >>)

StartNsT == Event("startNs", U32(3), U32(6), << >>)

EndNsAndroid == Event("endNs", U32(3), U32(2), << >>)

EndNsT == Event("endNs", U32(3), U32(6), << >>)

Text == Event("text", NoString, U32(5), << >>)

\* The chunk of an event; an end-tag names the innermost open element
\* (manifest when there is none).
EventChunk(e, open) ==
    CASE e.op = "start"   -> StartTagChunk(e.ns, e.name, e.attrs)
      [] e.op = "end"     -> EndTagChunk(IF open = << >> THEN NoString ELSE open[Len(open)].ns,
                                         IF open = << >> THEN U32(0) ELSE open[Len(open)].name)
      [] e.op = "startNs" -> NamespaceChunk(WORD_START_NS, e.name, e.ns)
      [] e.op = "endNs"   -> NamespaceChunk(WORD_END_NS, e.name, e.ns)
      [] e.op = "text"    -> TextChunk(e.name)
      [] e.op = "word"    -> e.name

RECURSIVE EventChunks(_, _, _)
EventChunks(events, k, open) ==
    IF k > Len(events) THEN << >>
    ELSE << EventChunk(events[k], open) >>
         \o EventChunks(events, k + 1,
                        IF events[k].op = "start" THEN Append(open, events[k])
                        ELSE IF events[k].op = "end" /\ open # << >>
                        THEN SubSeq(open, 1, Len(open) - 1)
                        ELSE open)

\* The chunks of a document: the document header with the file size, the
\* string pool, the resource ids, then the chunks of the events.
Utf8Table == StringTableChunk(Pool, TRUE)

Utf16Table == StringTableChunk(Pool, FALSE)

BodyChunks(events, utf8) ==
    << IF utf8 THEN Utf8Table ELSE Utf16Table,
       ResourceTableChunk(<< << 3, 0, 1, 1 >> >>) >>
    \o EventChunks(events, 1, << >>)

Chunks(events, utf8) ==
    << WORD_START_DOCUMENT \o U32(2 * WORD_SIZE + Len(Flatten(BodyChunks(events, utf8)))) >>
    \o BodyChunks(events, utf8)

Document(events) == Flatten(Chunks(events, TRUE))

SequencesUpTo(alphabet, n) == UNION { [ 1..k -> alphabet ] : k \in 0..n }

\* Documents of start-tags and end-tags in any order, balanced or not.
MaxTagEvents == 6

TagDocuments ==
    { Document(events) :
        events \in SequencesUpTo({ StartManifest, StartActivity, EndTag }, MaxTagEvents) }

\* Documents of namespace starts and ends (two prefixes of one URI), of
\* start-tags in that namespace and of end-tags, in any order.
MaxNamespaceEvents == 4

NamespaceDocuments ==
    { Document(events) :
        events \in SequencesUpTo({ StartNsAndroid, StartNsT, EndNsAndroid, EndNsT,
                                   StartQualified, EndTag },
                                 MaxNamespaceEvents) }

\* <manifest xmlns:android="urn:a">x.Main<activity android:name="x.Main" />
\* </manifest>
TypicalEvents ==
    << StartNsAndroid, StartManifest, Text, StartActivity, EndTag, EndTag,
       EndNsAndroid >>

TypicalDocument == Document(TypicalEvents)

\* The same document with a UTF-16 string pool.
Utf16Document == Flatten(Chunks(TypicalEvents, FALSE))

\* The offsets at which the chunks of a document end (and 0).
RECURSIVE ChunkEnds(_, _)
ChunkEnds(chunks, k) ==
    IF k = 0 THEN { 0 }
    ELSE ChunkEnds(chunks, k - 1) \cup { Len(Flatten(SubSeq(chunks, 1, k))) }

TypicalChunkEnds == ChunkEnds(Chunks(TypicalEvents, TRUE), Len(Chunks(TypicalEvents, TRUE)))

\* The typical document cut anywhere inside a chunk.
MidChunkTruncations ==
    { SubSeq(TypicalDocument, 1, n) :
        n \in (0..Len(TypicalDocument)) \ TypicalChunkEnds }

\* The typical document with one string reference replaced by an index
\* past the pool: the name or namespace of a start-tag, the name, raw
\* value, string data or namespace of an attribute, the string of a text.
BadIndex == U32(Len(Pool) + 2)

WithEvent(events, k, e) == [ events EXCEPT ![k] = e ]

BadIndexEvents ==
    { WithEvent(TypicalEvents, 2, Event("start", NoString, BadIndex, << >>)),
      WithEvent(TypicalEvents, 2, Event("start", BadIndex, U32(0), << >>)),
      WithEvent(TypicalEvents, 3, Event("text", NoString, BadIndex, << >>)),
      WithEvent(TypicalEvents, 4,
                Event("start", NoString, U32(1),
                      AttributeBytes(U32(3), BadIndex, U32(5), TYPE_STRING, U32(5)))),
      WithEvent(TypicalEvents, 4,
                Event("start", NoString, U32(1),
                      AttributeBytes(U32(3), U32(4), BadIndex, TYPE_STRING, U32(5)))),
      WithEvent(TypicalEvents, 4,
                Event("start", NoString, U32(1),
                      AttributeBytes(U32(3), U32(4), NoString, TYPE_STRING, BadIndex))),
      WithEvent(TypicalEvents, 4,
                Event("start", NoString, U32(1),
                      AttributeBytes(BadIndex, U32(4), U32(5), TYPE_STRING, U32(5)))) }

BadIndexDocuments == { Document(events) : events \in BadIndexEvents }

\* The typical document with one or two words of no known tag put before
\* one of its events or after the last.
UnknownWords == { << 0, 0, 0, 0 >>, << 5, 1, 16, 0 >>, << 3, 0, 8, 1 >> }

InsertEvent(events, k, e) == SubSeq(events, 1, k - 1) \o << e >> \o SubSeq(events, k, Len(events))

UnknownWordDocuments ==
    { Document(InsertEvent(TypicalEvents, k, Event("word", NoString, word, << >>))) :
        k \in 1..(Len(TypicalEvents) + 1),
        word \in UnknownWords \cup { w1 \o w2 : w1, w2 \in UnknownWords } }

\* A chunk with another value in its size word (the second word).
WithChunkSize(chunk, size) ==
    SubSeq(chunk, 1, WORD_SIZE) \o U32(size) \o SubSeq(chunk, 2 * WORD_SIZE + 1, Len(chunk))

\* The typical document with the size word of its string pool or of its
\* resource table set to zero.
ZeroSizeDocuments ==
    { Flatten([ Chunks(TypicalEvents, TRUE) EXCEPT ![k] = WithChunkSize(@, 0) ]) :
        k \in { 2, 3 } }

\* Documents whose namespaces each enclose one element: a namespace declared
\* again on a child, two namespaces on one element; and one whose namespace
\* encloses two sibling elements.
ScopedNamespaceDocuments ==
    { Document(<< StartNsAndroid, StartManifest, StartNsAndroid, StartActivity,
                  EndTag, EndNsAndroid, StartActivity, EndTag, EndTag,
                  EndNsAndroid >>),
      Document(<< StartNsAndroid, StartNsT, StartManifest, StartQualified, EndTag,
                  EndTag, EndNsT, EndNsAndroid >>),
      Document(<< StartManifest, StartNsT, StartActivity, EndTag, StartActivity,
                  EndTag, EndNsT, EndTag >>) }

Buffers ==
    TagDocuments \cup NamespaceDocuments \cup MidChunkTruncations
    \cup BadIndexDocuments \cup UnknownWordDocuments \cup ZeroSizeDocuments
    \cup ScopedNamespaceDocuments \cup { TypicalDocument, Utf16Document }

\* A buffer handed to convertAxmlToXml, parse and analyse entered.
DecoderInit ==
    /\ pc = "decoding"
    /\ analyses = 0
    /\ zipFiles = << >>
    /\ manifest = ComponentLists(<< >>)
    /\ scanResult = Null
    /\ rules = Null
    /\ matchCache = { }
    /\ libraryMap = << >>
    /\ libraries = << >>
    /\ calls = << >>
    /\ notified = << >>
    /\ MatcherIdle
    /\ FlightIdle
    /\ buf \in Buffers
    /\ decoder = EnterParse
    /\ ExtractorIdle
    /\ WorkerIdle

\* One turn of the loop of analyse, with the callbacks of parse it calls;
\* on WORD_EOS analyse returns and convertAxmlToXml goes on.
DecodeChunk ==
    /\ decoder.status = "running"
    /\ decoder.mParserOffset < Len(buf)
    /\ decoder' = analyseStep(buf, decoder)
    /\ UNCHANGED << pc, analyses, zipFiles, manifest, scanResult, rules,
                    matchCache, libraryMap, libraries, calls, notified,
                    matcherVars, flightVars, buf, extractorVars,
                    workerVars >>

\* The loop ends at the end of the buffer: analyse and parse return,
\* convertAxmlToXml prints the tree.
EndOfBuffer ==
    /\ decoder.status = "running"
    /\ decoder.mParserOffset >= Len(buf)
    /\ decoder' = PrintTree(decoder)
    /\ UNCHANGED << pc, analyses, zipFiles, manifest, scanResult, rules,
                    matchCache, libraryMap, libraries, calls, notified,
                    matcherVars, flightVars, buf, extractorVars,
                    workerVars >>

DecoderNext == DecodeChunk \/ EndOfBuffer

\* convertAxmlToXml on one buffer.
DecoderSpec == DecoderInit /\ [][DecoderNext]_vars

(***************************************************************************)
(* extractComponents (axmlParser.ts): four regular expressions run over    *)
(* the XML text with exec until no match is left.                          *)
(***************************************************************************)
\* android:name="
Str_androidName ==
    << "a", "n", "d", "r", "o", "i", "d", ":", "n", "a", "m", "e", "=",
       "\"" >>

\* <activity
Tag_activity ==
    << "<", "a", "c", "t", "i", "v", "i", "t", "y" >>

\* <service
Tag_service ==
    << "<", "s", "e", "r", "v", "i", "c", "e" >>

\* <provider
Tag_provider ==
    << "<", "p", "r", "o", "v", "i", "d", "e", "r" >>

\* <receiver
Tag_receiver ==
    << "<", "r", "e", "c", "e", "i", "v", "e", "r" >>

\* text holds lit from index i on.
LiteralAt(text, i, lit) ==
    /\ i + Len(lit) - 1 <= Len(text)
    /\ SubSeq(text, i, i + Len(lit) - 1) = lit

\* The first index from `from` on at which text holds c, or Len(text) + 1.
IndexFrom(text, c, from) ==
    IF \E i \in from..Len(text) : text[i] = c
    THEN CHOOSE i \in from..Len(text) :
             text[i] = c /\ \A j \in from..(i - 1) : text[j] # c
    ELSE Len(text) + 1

\* android:name="([^"]+)" matches at p: one character or more up to a
\* closing quote.
NameAt(text, p) ==
    /\ LiteralAt(text, p, Str_androidName)
    /\ IndexFrom(text, "\"", p + Len(Str_androidName)) <= Len(text)
    /\ IndexFrom(text, "\"", p + Len(Str_androidName)) > p + Len(Str_androidName)

\* Where android:name=" can begin in a match that begins at s: after
\* <tag and [^>]*, that is before the first > that follows the tag.
NamePlaces(text, tag, s) ==
    { p \in (s + Len(tag))..(IndexFrom(text, ">", s + Len(tag)) - 1) : NameAt(text, p) }

\* /<tag[^>]*android:name="([^"]+)"/ matches at s.
MatchesFrom(text, tag, s) == LiteralAt(text, s, tag) /\ NamePlaces(text, tag, s) # { }

\* The match at s: [^>]* is greedy, so android:name=" is taken at the last
\* place; match[1] and the index after the match.
MatchOf(text, p) ==
    [ name      |-> SubSeq(text, p + Len(Str_androidName),
                           IndexFrom(text, "\"", p + Len(Str_androidName)) - 1),
      lastIndex |-> IndexFrom(text, "\"", p + Len(Str_androidName)) + 1 ]

MatchAt(text, tag, s) ==
    MatchOf(text, CHOOSE p \in NamePlaces(text, tag, s) :
                      \A r \in NamePlaces(text, tag, s) : r <= p)

\* while ((match = regex.exec(xmlText)) !== null) names.push(match[1]):
\* exec finds the leftmost match from lastIndex on.
RECURSIVE ExecAll(_, _, _, _)
ExecPush(text, tag, names, match) ==
    ExecAll(text, tag, match.lastIndex, Append(names, match.name))

ExecAll(text, tag, lastIndex, names) ==
    IF \A s \in lastIndex..Len(text) : ~MatchesFrom(text, tag, s) THEN names
    ELSE ExecPush(text, tag, names,
                  MatchAt(text, tag,
                          CHOOSE s \in lastIndex..Len(text) :
                              /\ MatchesFrom(text, tag, s)
                              /\ \A r \in lastIndex..(s - 1) : ~MatchesFrom(text, tag, r)))

extractComponents(text) ==
    [ activities |-> ExecAll(text, Tag_activity, 1, << >>),
      services   |-> ExecAll(text, Tag_service, 1, << >>),
      providers  |-> ExecAll(text, Tag_provider, 1, << >>),
      receivers  |-> ExecAll(text, Tag_receiver, 1, << >>) ]

(***************************************************************************)
(* XML texts as printTree writes them: one element per line, tabs for      *)
(* depth, attributes as prefix:name="value".                               *)
(***************************************************************************)
\* <?xml version="1.0" encoding="utf-8"?><newline><manifest package="a"><newline><tab><application><newline>
Xml_head ==
    << "<", "?", "x", "m", "l", " ", "v", "e", "r", "s", "i", "o", "n",
       "=", "\"", "1", ".", "0", "\"", " ", "e", "n", "c", "o", "d", "i",
       "n", "g", "=", "\"", "u", "t", "f", "-", "8", "\"", "?", ">", "\n",
       "<", "m", "a", "n", "i", "f", "e", "s", "t", " ", "p", "a", "c",
       "k", "a", "g", "e", "=", "\"", "a", "\"", ">", "\n", "\t", "<", "a",
       "p", "p", "l", "i", "c", "a", "t", "i", "o", "n", ">", "\n" >>

\* <tab></application><newline></manifest><newline>
Xml_tail ==
    << "\t", "<", "/", "a", "p", "p", "l", "i", "c", "a", "t", "i", "o",
       "n", ">", "\n", "<", "/", "m", "a", "n", "i", "f", "e", "s", "t",
       ">", "\n" >>

\* <tab><tab><activity android:name="a.A" /><newline>
Line_activity ==
    << "\t", "\t", "<", "a", "c", "t", "i", "v", "i", "t", "y", " ", "a",
       "n", "d", "r", "o", "i", "d", ":", "n", "a", "m", "e", "=", "\"",
       "a", ".", "A", "\"", " ", "/", ">", "\n" >>

\* <tab><tab><service android:name="a.S" /><newline>
Line_service ==
    << "\t", "\t", "<", "s", "e", "r", "v", "i", "c", "e", " ", "a", "n",
       "d", "r", "o", "i", "d", ":", "n", "a", "m", "e", "=", "\"", "a",
       ".", "S", "\"", " ", "/", ">", "\n" >>

\* <tab><tab><provider android:name="a.P" /><newline>
Line_provider ==
    << "\t", "\t", "<", "p", "r", "o", "v", "i", "d", "e", "r", " ", "a",
       "n", "d", "r", "o", "i", "d", ":", "n", "a", "m", "e", "=", "\"",
       "a", ".", "P", "\"", " ", "/", ">", "\n" >>

\* <tab><tab><receiver android:name="a.R" /><newline>
Line_receiver ==
    << "\t", "\t", "<", "r", "e", "c", "e", "i", "v", "e", "r", " ", "a",
       "n", "d", "r", "o", "i", "d", ":", "n", "a", "m", "e", "=", "\"",
       "a", ".", "R", "\"", " ", "/", ">", "\n" >>

\* <tab><tab><activity-alias android:name="a.L" android:targetActivity="a.A" /><newline>
Line_activityAlias ==
    << "\t", "\t", "<", "a", "c", "t", "i", "v", "i", "t", "y", "-", "a",
       "l", "i", "a", "s", " ", "a", "n", "d", "r", "o", "i", "d", ":",
       "n", "a", "m", "e", "=", "\"", "a", ".", "L", "\"", " ", "a", "n",
       "d", "r", "o", "i", "d", ":", "t", "a", "r", "g", "e", "t", "A",
       "c", "t", "i", "v", "i", "t", "y", "=", "\"", "a", ".", "A", "\"",
       " ", "/", ">", "\n" >>

\* <tab><tab><activity android:label="a.N" /><newline>
Line_unnamed ==
    << "\t", "\t", "<", "a", "c", "t", "i", "v", "i", "t", "y", " ", "a",
       "n", "d", "r", "o", "i", "d", ":", "l", "a", "b", "e", "l", "=",
       "\"", "a", ".", "N", "\"", " ", "/", ">", "\n" >>

\* <tab><tab><meta-data android:name="a.M" /><newline>
Line_metaData ==
    << "\t", "\t", "<", "m", "e", "t", "a", "-", "d", "a", "t", "a", " ",
       "a", "n", "d", "r", "o", "i", "d", ":", "n", "a", "m", "e", "=",
       "\"", "a", ".", "M", "\"", " ", "/", ">", "\n" >>

\* <tab><tab><service android:label="s" android:name="a.S" android:exported="false"><newline><tab><tab></service><newline>
Line_labelled ==
    << "\t", "\t", "<", "s", "e", "r", "v", "i", "c", "e", " ", "a", "n",
       "d", "r", "o", "i", "d", ":", "l", "a", "b", "e", "l", "=", "\"",
       "s", "\"", " ", "a", "n", "d", "r", "o", "i", "d", ":", "n", "a",
       "m", "e", "=", "\"", "a", ".", "S", "\"", " ", "a", "n", "d", "r",
       "o", "i", "d", ":", "e", "x", "p", "o", "r", "t", "e", "d", "=",
       "\"", "f", "a", "l", "s", "e", "\"", ">", "\n", "\t", "\t", "<",
       "/", "s", "e", "r", "v", "i", "c", "e", ">", "\n" >>

ElementLines ==
    { Line_activity, Line_service, Line_provider, Line_receiver,
      Line_activityAlias, Line_unnamed, Line_metaData, Line_labelled }

\* The number of elements under <application>.
MaxElements == 3

XmlTexts ==
    { Xml_head \o Flatten(lines) \o Xml_tail :
        lines \in SequencesUpTo(ElementLines, MaxElements) }

\* An XML text and extractComponents not called yet.
ExtractorInit ==
    /\ pc = "printed"
    /\ analyses = 0
    /\ zipFiles = << >>
    /\ manifest = ComponentLists(<< >>)
    /\ scanResult = Null
    /\ rules = Null
    /\ matchCache = { }
    /\ libraryMap = << >>
    /\ libraries = << >>
    /\ calls = << >>
    /\ notified = << >>
    /\ MatcherIdle
    /\ FlightIdle
    /\ DecoderIdle
    /\ xmlText \in XmlTexts
    /\ extracted = Null
    /\ WorkerIdle

\* const components = extractComponents(xmlText)
ExtractComponents ==
    /\ pc = "printed"
    /\ extracted' = << extractComponents(xmlText) >>
    /\ pc' = "extracted"
    /\ UNCHANGED << analyses, zipFiles, manifest, scanResult, rules, matchCache,
                    libraryMap, libraries, calls, notified, matcherVars,
                    flightVars, decoderVars, xmlText, workerVars >>

ExtractorNext == ExtractComponents

\* extractComponents on one XML text.
ExtractorSpec == ExtractorInit /\ [][ExtractorNext]_vars

(***************************************************************************)
(* Two calls of analyzeApk in flight at the same time: the worker handles  *)
(* a second 'analyze' message while the first analysis is suspended at an  *)
(* await.  Each analysis has its own locals (flight[p]); matchCache is the *)
(* module's.  A turn is what runs between two awaits.                      *)
(***************************************************************************)
\* The five loops of matchLibraries: the names and the rules table of each.
Loops(scanned, bundle) ==
    << [ kind |-> "native", names |-> scanned.nativeLibs,
         rulesMap |-> bundle.rules.native ],
       [ kind |-> "activity", names |-> scanned.activities,
         rulesMap |-> bundle.rules.activities ],
       [ kind |-> "service", names |-> scanned.services,
         rulesMap |-> bundle.rules.services ],
       [ kind |-> "provider", names |-> scanned.providers,
         rulesMap |-> bundle.rules.providers ],
       [ kind |-> "receiver", names |-> scanned.receivers,
         rulesMap |-> bundle.rules.receivers ] >>

RunLoop(st, loop) ==
    IF loop.kind = "native"
    THEN NativeLoop(st, loop.names, Len(loop.names), loop.rulesMap)
    ELSE ComponentLoop(st, loop.kind, loop.names, Len(loop.names), loop.rulesMap)

RECURSIVE RunLoops(_, _, _)
RunLoops(st, loops, k) ==
    IF k = 0 THEN st ELSE RunLoop(RunLoops(st, loops, k - 1), loops[k])

\* The turns of matchLibraries if it awaited after each loop.
MatchingTurnsPerLoop(loops) == [ i \in 1..Len(loops) |-> << loops[i] >> ]

\* The turns in which matchLibraries runs its loops: the function holds no
\* await, so all of them run in the turn that calls it.
MatchingTurns(loops) == << loops >>

\* The locals of matchLibraries on entry; the cache is the module's.
EnterMatchLibraries(scanned) ==
    [ libraryMap |-> << >>, nativeLibsMap |-> scanned.nativeLibsMap,
      cache |-> { }, shared |-> { }, calls |-> << >> ]

\* Two 'analyze' messages handled: both analyses await scanApk.
FlightInit ==
    /\ pc = "flying"
    /\ analyses = 2
    /\ zipFiles = << >>
    /\ manifest = ComponentLists(<< >>)
    /\ scanResult = Null
    /\ rules = Null
    /\ matchCache = { }
    /\ libraryMap = << >>
    /\ libraries = << >>
    /\ calls = << >>
    /\ notified = << >>
    /\ MatcherIdle
    /\ flight \in [ 1..2 -> { [ pc |-> "scanning", zipFiles |-> archive,
                                manifest |-> components, scanResult |-> Null,
                                rules |-> Null, st |-> Null, turns |-> 0,
                                libraries |-> << >> ] :
                                archive \in SessionArchives,
                                components \in SessionManifests } ]
    /\ cacheLog = << >>
    /\ DecoderIdle
    /\ ExtractorIdle
    /\ WorkerIdle

\* scanApk resolves for analysis p, which goes on to await loadRules().
FlightScanApk(p) ==
    /\ flight[p].pc = "scanning"
    /\ flight' = [ flight EXCEPT
                     ![p].scanResult = << scanApk(flight[p].zipFiles, flight[p].manifest) >>,
                     ![p].pc = "loading" ]
    /\ UNCHANGED << pc, analyses, zipFiles, manifest, scanResult, rules,
                    matchCache, libraryMap, libraries, calls, notified,
                    matcherVars, cacheLog, decoderVars, extractorVars,
                    workerVars >>

\* loadRules resolves for analysis p, which calls matchLibraries.
FlightLoadRules(p) ==
    /\ flight[p].pc = "loading"
    /\ \E bundle \in Bundles :
           flight' = [ flight EXCEPT
                         ![p].rules = << bundle >>,
                         ![p].st = << EnterMatchLibraries(flight[p].scanResult[1]) >>,
                         ![p].pc = "matching" ]
    /\ UNCHANGED << pc, analyses, zipFiles, manifest, scanResult, rules,
                    matchCache, libraryMap, libraries, calls, notified,
                    matcherVars, cacheLog, decoderVars, extractorVars,
                    workerVars >>

\* The accesses to the cache of the calls made in one turn, in order.
Accesses(p, before, after) ==
    [ i \in 1..(Len(after) - Len(before)) |->
        [ analysis |-> p, name |-> after[Len(before) + i].name,
          other |-> flight[3 - p].pc ] ]

\* The next turn of matchLibraries for analysis p; after the last one the
\* libraries are sorted and returned.
FlightMatchLibraries(p) ==
    /\ flight[p].pc = "matching"
    /\ \E turns \in { MatchingTurns(Loops(flight[p].scanResult[1], flight[p].rules[1])) } :
       \E left \in { RunLoops([ flight[p].st[1] EXCEPT !.cache = matchCache ],
                              turns[flight[p].turns + 1],
                              Len(turns[flight[p].turns + 1])) } :
           /\ matchCache' = left.cache
           /\ cacheLog' = cacheLog \o Accesses(p, flight[p].st[1].calls, left.calls)
           /\ flight' = [ flight EXCEPT
                            ![p].st = << left >>,
                            ![p].turns = @ + 1,
                            ![p].pc = IF flight[p].turns + 1 = Len(turns)
                                      THEN "completed" ELSE "matching",
                            ![p].libraries = IF flight[p].turns + 1 = Len(turns)
                                             THEN SortAndReturn(left).libraries
                                             ELSE @ ]
    /\ UNCHANGED << pc, analyses, zipFiles, manifest, scanResult, rules,
                    libraryMap, libraries, calls, notified, matcherVars,
                    decoderVars, extractorVars,
                    workerVars >>

FlightNext ==
    \/ \E p \in 1..2 : FlightScanApk(p)
    \/ \E p \in 1..2 : FlightLoadRules(p)
    \/ \E p \in 1..2 : FlightMatchLibraries(p)

\* Two analyses interleaving at their awaits.
FlightSpec == FlightInit /\ [][FlightNext]_vars

(***************************************************************************)
(* The analyzer worker (src/workers/analyzerWorker.ts).  Each message the  *)
(* worker receives starts one run of the async onmessage handler; the runs *)
(* of several messages interleave at the awaits of analyzeApk.  The        *)
(* callback handed to analyzeApk posts a 'progress' message.  The messages *)
(* carry no request id: posted[p] is what the run for the p-th message     *)
(* posted, in the order it posted it.                                      *)
(***************************************************************************)
MaxRequests == 2

\* event.data.type: 'analyze', or anything else the page may send.
RequestTypes == { "analyze", "cancel" }

\* self.postMessage({ type, data })
postMessage(log, type, data) == Append(log, [ type |-> type, data |-> data ])

\* The callback of the worker called for each notification of one turn.
RECURSIVE postProgress(_, _)
postProgress(log, stages) ==
    IF stages = << >> THEN log
    ELSE postProgress(postMessage(log, "progress", Head(stages)), Tail(stages))

\* What analyzeApk does when the await of a stage settles: where it is
\* next and what it notifies on the way, as in AnalyzeApk .. MatchLibraries.
Settled(stage) ==
    CASE stage = "extracting" ->
             { [ pc |-> "failed", notified |-> Catch(<< >>) ],
               [ pc |-> "failed", notified |-> Catch(onProgress(<< >>, "parsing")) ],
               [ pc |-> "parsing", notified |-> onProgress(<< >>, "parsing") ] }
      [] stage = "parsing" ->
             { [ pc |-> "failed", notified |-> Catch(<< >>) ],
               [ pc |-> "scanning", notified |-> onProgress(<< >>, "scanning") ] }
      [] stage = "scanning" ->
             { [ pc |-> "loading", notified |-> onProgress(<< >>, "matching") ] }
      [] stage = "loading" ->
             { [ pc |-> "failed", notified |-> Catch(<< >>) ],
               [ pc |-> "matching", notified |-> onProgress(<< >>, "matching") ] }
      [] stage = "matching" ->
             { [ pc |-> "completed", notified |-> onProgress(<< >>, "completed") ] }

Awaiting == { "extracting", "parsing", "scanning", "loading", "matching" }

\* A handler that posted 'result' after the try block instead of inside it.
postOutcomeAfterTry(log, outcome) ==
    IF outcome = "completed"
    THEN postMessage(log, "result", "AnalysisResult")
    ELSE postMessage(postMessage(log, "error", "message"),
                     "result", "AnalysisResult")

\* const result = await analyzeApk(...); self.postMessage({ type: 'result',
\* data: result }), or in the catch block self.postMessage({ type: 'error',
\* data: { message } }).
postOutcome(log, outcome) ==
    IF outcome = "completed"
    THEN postMessage(log, "result", "AnalysisResult")
    ELSE postMessage(log, "error", "message")

\* A worker that has received no message.
WorkerInit ==
    /\ pc = "listening"
    /\ analyses = 0
    /\ zipFiles = << >>
    /\ manifest = ComponentLists(<< >>)
    /\ scanResult = Null
    /\ rules = Null
    /\ matchCache = { }
    /\ libraryMap = << >>
    /\ libraries = << >>
    /\ calls = << >>
    /\ notified = << >>
    /\ MatcherIdle
    /\ FlightIdle
    /\ DecoderIdle
    /\ ExtractorIdle
    /\ WorkerIdle

\* self.onmessage: a message of type 'analyze' calls analyzeApk, which
\* notifies 'extracting' and suspends at await JSZip.loadAsync(file); for any
\* other type the handler returns at once.
OnMessage ==
    /\ Len(handlers) < MaxRequests
    /\ \E type \in RequestTypes :
           IF type = "analyze"
           THEN /\ handlers' = Append(handlers, [ type |-> type, pc |-> "extracting" ])
                /\ posted' = Append(posted,
                                    postProgress(<< >>, onProgress(<< >>, "extracting")))
           ELSE /\ handlers' = Append(handlers, [ type |-> type, pc |-> "returned" ])
                /\ posted' = Append(posted, << >>)
    /\ UNCHANGED << pc, analyses, zipFiles, manifest, scanResult, rules,
                    matchCache, libraryMap, libraries, calls, notified,
                    matcherVars, flightVars, decoderVars, extractorVars >>

\* The await at which analyzeApk is suspended for request p settles.
AnalyzeApkResumes(p) ==
    /\ p \in 1..Len(handlers)
    /\ handlers[p].pc \in Awaiting
    /\ \E turn \in Settled(handlers[p].pc) :
           /\ handlers' = [ handlers EXCEPT ![p].pc = turn.pc ]
           /\ posted' = [ posted EXCEPT ![p] = postProgress(@, turn.notified) ]
    /\ UNCHANGED << pc, analyses, zipFiles, manifest, scanResult, rules,
                    matchCache, libraryMap, libraries, calls, notified,
                    matcherVars, flightVars, decoderVars, extractorVars >>

\* analyzeApk has returned or thrown: the handler of request p goes on after
\* its await, posts the outcome and returns.
HandlerResumes(p) ==
    /\ p \in 1..Len(handlers)
    /\ handlers[p].pc \in { "completed", "failed" }
    /\ handlers' = [ handlers EXCEPT ![p].pc = "returned" ]
    /\ posted' = [ posted EXCEPT ![p] = postOutcome(@, handlers[p].pc) ]
    /\ UNCHANGED << pc, analyses, zipFiles, manifest, scanResult, rules,
                    matchCache, libraryMap, libraries, calls, notified,
                    matcherVars, flightVars, decoderVars, extractorVars >>

WorkerNext ==
    \/ OnMessage
    \/ \E p \in 1..MaxRequests : AnalyzeApkResumes(p)
    \/ \E p \in 1..MaxRequests : HandlerResumes(p)

\* The worker; every promise awaited settles and the event loop runs the
\* continuation that waits for it.
WorkerSpec ==
    /\ WorkerInit
    /\ [][WorkerNext]_vars
    /\ \A p \in 1..MaxRequests : WF_vars(AnalyzeApkResumes(p))
    /\ \A p \in 1..MaxRequests : WF_vars(HandlerResumes(p))

(***************************************************************************)
(* Properties of one analysis.                                             *)
(*                                                                         *)
(* A call "resolves to" the entry the matcher returned for it (calls[k]    *)
(* .matched).  Every entry of the catalogs carries a uuid, as the entries  *)
(* scripts/build-rules-bundle.js writes do.                                *)
(***************************************************************************)
\* What scanApk returned, before matchLibraries pushed into its arrays.
ScannedInfo(libName) == MapGet(scanApk(zipFiles, manifest).nativeLibsMap, libName)

Resolves(k, uuid) == calls[k].matched # Null /\ calls[k].matched[1].uuid = uuid

ResolvedUuids == { calls[k].matched[1].uuid : k \in { j \in 1..Len(calls) : calls[j].matched # Null } }

KindsResolving(uuid) == { calls[k].kind : k \in { j \in 1..Len(calls) : Resolves(j, uuid) } }

RecordsOf(uuid) == { i \in 1..Len(libraries) : libraries[i].uuid = uuid }

TheRecordOf(uuid) == libraries[CHOOSE i \in 1..Len(libraries) : libraries[i].uuid = uuid]

KindTag(kind) ==
    CASE kind = "activity" -> << "A", "c", "t", "i", "v", "i", "t", "y", ":", " " >>
      [] kind = "service"  -> << "S", "e", "r", "v", "i", "c", "e", ":", " " >>
      [] kind = "provider" -> << "P", "r", "o", "v", "i", "d", "e", "r", ":", " " >>
      [] kind = "receiver" -> << "R", "e", "c", "e", "i", "v", "e", "r", ":", " " >>

\* What the k-th call contributes to the record of uuid.
CountOfCall(k, uuid) ==
    IF ~Resolves(k, uuid) THEN 0
    ELSE IF calls[k].kind = "native" THEN ScannedInfo(calls[k].name).count
    ELSE 1

LocationsOfCall(k, uuid) ==
    IF ~Resolves(k, uuid) THEN << >>
    ELSE IF calls[k].kind = "native" THEN ScannedInfo(calls[k].name).locations
    ELSE << KindTag(calls[k].kind) \o calls[k].name >>

RECURSIVE SumOfCounts(_, _)
SumOfCounts(k, uuid) ==
    IF k = 0 THEN 0 ELSE SumOfCounts(k - 1, uuid) + CountOfCall(k, uuid)

RECURSIVE AllLocations(_, _)
AllLocations(k, uuid) ==
    IF k = 0 THEN << >> ELSE AllLocations(k - 1, uuid) \o LocationsOfCall(k, uuid)

\* C1: the list matchLibraries returns holds at most one record per catalog
\* uuid, whatever mix of native names and components of the four kinds
\* resolved to it.
C1_AtMostOneRecordPerUuid ==
    \A i, j \in 1..Len(libraries) :
        (libraries[i].uuid # Null /\ libraries[i].uuid = libraries[j].uuid) => i = j

\* A finished analysis in which a native name and a component resolved to
\* one uuid, which has its record.
C1_Witness ==
    /\ pc = "completed"
    /\ \E uuid \in ResolvedUuids :
           /\ "native" \in KindsResolving(uuid)
           /\ KindsResolving(uuid) # { "native" }
           /\ RecordsOf(uuid) # { }

\* C2: every uuid that native names or components resolved to has a single
\* record; its count is the sum of the native occurrence counts plus one per
\* resolved component occurrence, and its locations are the native paths
\* followed by one kind-tagged entry per resolved component occurrence.
C2_OneRecordAccumulates ==
    pc = "completed" =>
        \A uuid \in ResolvedUuids :
            /\ Cardinality(RecordsOf(uuid)) = 1
            /\ TheRecordOf(uuid).count = SumOfCounts(Len(calls), uuid)
            /\ TheRecordOf(uuid).locations = AllLocations(Len(calls), uuid)

\* A finished analysis in which a native name and components of two kinds
\* resolved to one uuid.
C2_Witness ==
    /\ pc = "completed"
    /\ \E uuid \in ResolvedUuids :
           /\ "native" \in KindsResolving(uuid)
           /\ Cardinality(KindsResolving(uuid)) >= 3
           /\ TheRecordOf(uuid).count >= 3

\* The calls of the first loop come first in calls.
NativeCalls == Cardinality({ k \in 1..Len(calls) : calls[k].kind = "native" })

NativeResolving(uuid) ==
    { k \in 1..Len(calls) : calls[k].kind = "native" /\ Resolves(k, uuid) }

\* The merge map when the loop over the native names was done.
AfterNativeLoop == IF NativeCalls = 0 THEN << >> ELSE calls[NativeCalls].libraryMap

Elements(array) == { array[i] : i \in 1..Len(array) }

HasNoDuplicate(array) ==
    \A i, j \in 1..Len(array) : array[i] = array[j] => i = j

\* The same name merged a second time into what its first merge left.
MergedAgain(once, twice, key) ==
    /\ MapGet(twice.libraryMap, key).count = 2 * MapGet(once.libraryMap, key).count
    /\ MapGet(twice.libraryMap, key).locations =
           MapGet(once.libraryMap, key).locations
               \o MapGet(once.libraryMap, key).locations
    /\ MapGet(twice.libraryMap, key).architectures =
           MapGet(once.libraryMap, key).architectures

MergesTwice(once, libName, rulesMap) ==
    once.calls[1].matched # Null =>
        MergedAgain(once, NativeStep(once, libName, rulesMap),
                    once.calls[1].matched[1].uuid)

\* C3: when native names resolve to one uuid, the merged record's count is
\* the sum of their occurrence counts, its locations are their location
\* lists concatenated in processing order, nothing removed, and its
\* architectures are the duplicate-free union of theirs; a name merged a
\* second time doubles the count and repeats the locations.
C3_NativeMerge ==
    /\ pc = "completed" =>
           \A uuid \in ResolvedUuids :
               NativeResolving(uuid) # { } =>
                   /\ MapGet(AfterNativeLoop, uuid).count =
                          SumOfCounts(NativeCalls, uuid)
                   /\ MapGet(AfterNativeLoop, uuid).locations =
                          AllLocations(NativeCalls, uuid)
                   /\ HasNoDuplicate(MapGet(AfterNativeLoop, uuid).architectures)
                   /\ Elements(MapGet(AfterNativeLoop, uuid).architectures) =
                          UNION { Elements(ScannedInfo(calls[k].name).architectures) :
                                    k \in NativeResolving(uuid) }
    /\ pc = "matching" =>
           \A i \in 1..Len(scanResult[1].nativeLibs) :
               MergesTwice(NativeStep([ libraryMap |-> << >>,
                                        nativeLibsMap |-> scanResult[1].nativeLibsMap,
                                        cache |-> matchCache, shared |-> { },
                                        calls |-> << >> ],
                                      scanResult[1].nativeLibs[i],
                                      rules[1].rules.native),
                           scanResult[1].nativeLibs[i], rules[1].rules.native)

\* A finished analysis in which two native names with different
\* architecture lists resolved to one uuid.
C3_Witness ==
    /\ pc = "completed"
    /\ \E uuid \in ResolvedUuids :
           \E j, k \in NativeResolving(uuid) :
               /\ j # k
               /\ ScannedInfo(calls[j].name).architectures
                      # ScannedInfo(calls[k].name).architectures
               /\ MapGet(AfterNativeLoop, uuid).count
                      = ScannedInfo(calls[j].name).count + ScannedInfo(calls[k].name).count

UnresolvedNative == { k \in 1..Len(calls) : calls[k].kind = "native" /\ calls[k].matched = Null }

UnresolvedComponent == { k \in 1..Len(calls) : calls[k].kind # "native" /\ calls[k].matched = Null }

MapBeforeCall(k) == IF k = 1 THEN << >> ELSE calls[k - 1].libraryMap

IsPlaceholderOf(library, libName) ==
    /\ library.id = libName
    /\ library.name = libName
    /\ library.label = libName
    /\ library.hasMetadata = FALSE
    /\ library.count = ScannedInfo(libName).count
    /\ library.locations = ScannedInfo(libName).locations
    /\ library.architectures = ScannedInfo(libName).architectures

\* C4: every native name that resolves to no catalog entry is in the result
\* as its own placeholder record (id, name and label the file name,
\* hasMetadata false, count, locations and architectures from the scan); a
\* component name that resolves to no entry creates no record and changes
\* none.
C4_PlaceholderOrDropped ==
    pc = "completed" =>
        /\ \A k \in UnresolvedNative :
               Cardinality({ i \in 1..Len(libraries) :
                               IsPlaceholderOf(libraries[i], calls[k].name) }) = 1
        /\ \A k \in UnresolvedComponent : calls[k].libraryMap = MapBeforeCall(k)

\* A finished analysis with an unresolved native name and an unresolved
\* component met when the merge map already held records.
C4_Witness ==
    /\ pc = "completed"
    /\ UnresolvedNative # { }
    /\ \E k \in UnresolvedComponent : MapBeforeCall(k) # << >>

\* C9: the archive of lib/arm64-v8a/libacra-5.9.7.so and
\* lib/armeabi-v7a/libacra-5.9.7.so, scanned and matched against the native
\* catalog whose only rule is "libacra.so" (uuid U1, label ACRA), gives
\* exactly one record: uuid U1, count 2, architectures arm64-v8a and
\* armeabi-v7a, two locations.
C9_AcraEndToEnd ==
    ( /\ pc = "completed"
      /\ Elements(zipFiles) = { File(Path_acra597_arm64), File(Path_acra597_armeabi) }
      /\ rules[1].rules.native = << Rule(Name_acra, Uuid_U1, Label_ACRA, "native") >>
      /\ ResolvedUuids \subseteq { Uuid_U1 } /\ KindsResolving(Uuid_U1) \subseteq { "native" } )
    => /\ Len(libraries) = 1
       /\ libraries[1].uuid = Uuid_U1
       /\ libraries[1].label = Label_ACRA
       /\ libraries[1].count = 2
       /\ Elements(libraries[1].architectures) = { Abi_arm64, Abi_armeabi }
       /\ Len(libraries[1].architectures) = 2
       /\ Elements(libraries[1].locations) = { Path_acra597_arm64, Path_acra597_armeabi }
       /\ Len(libraries[1].locations) = 2

\* That archive analysed against that catalog.
C9_Witness ==
    /\ pc = "completed"
    /\ Elements(zipFiles) = { File(Path_acra597_arm64), File(Path_acra597_armeabi) }
    /\ rules[1] = BundleNativeOnly
    /\ Len(libraries) = 1
    /\ libraries[1].count = 2

\* C10: the list matchLibraries returns is ascending by label (no record's
\* label compares greater than its successor's) and holds exactly the
\* records of the merge map.
C10_SortedByLabel ==
    pc = "completed" =>
        /\ \A i \in 1..(Len(libraries) - 1) :
               localeCompare(libraries[i].label, libraries[i + 1].label) <= 0
        /\ Len(libraries) = Len(libraryMap)
        /\ \A i \in 1..Len(libraryMap) :
               Cardinality({ j \in 1..Len(libraries) : libraries[j] = libraryMap[i].value })
                   = Cardinality({ j \in 1..Len(libraryMap) :
                                     libraryMap[j].value = libraryMap[i].value })

\* A finished analysis whose merge map was not in label order.
C10_Witness ==
    /\ pc = "completed"
    /\ Len(libraries) >= 3
    /\ \E i \in 1..(Len(libraryMap) - 1) :
           localeCompare(libraryMap[i].value.label, libraryMap[i + 1].value.label) > 0

(***************************************************************************)
(* Properties of the direct calls of fuzzyMatchLibrary.                    *)
(***************************************************************************)
IsKey(rulesMap, name) == \E i \in 1..Len(rulesMap) : rulesMap[i].key = name

EntryUnder(rulesMap, name) ==
    rulesMap[CHOOSE i \in 1..Len(rulesMap) : rulesMap[i].key = name].value

Least(indices) == CHOOSE i \in indices : \A j \in indices : i <= j

KeyCandidates(rulesMap, candidates) ==
    { i \in 1..Len(candidates) : IsKey(rulesMap, candidates[i]) }

SubstringHits(rulesMap, name) ==
    { i \in 1..Len(rulesMap) : IsSubstringHit(name, rulesMap[i].key) }

\* The first hit of the cascade: exact name, else first candidate that is a
\* key, else first substring hit, else nothing.
FirstHit(rulesMap, name, candidates) ==
    IF IsKey(rulesMap, name) THEN << EntryUnder(rulesMap, name) >>
    ELSE IF KeyCandidates(rulesMap, candidates) # { }
         THEN << EntryUnder(rulesMap,
                            candidates[Least(KeyCandidates(rulesMap, candidates))]) >>
    ELSE IF SubstringHits(rulesMap, name) # { }
         THEN << rulesMap[Least(SubstringHits(rulesMap, name))].value >>
    ELSE Null

\* The core token (leading "lib" and trailing ".so" stripped) is purely
\* hexadecimal and 8 to 16 characters long.
HasHashCore(name) ==
    /\ Len(removeExtension(StripLeadingLib(name))) \in 8..16
    /\ Elements(removeExtension(StripLeadingLib(name))) \subseteq HexDigits

NoExactOrNormalizedKey(rulesMap, name, candidates) ==
    ~IsKey(rulesMap, name) /\ KeyCandidates(rulesMap, candidates) = { }

\* C5: fuzzyMatchLibrary returns the first hit of the cascade exact name,
\* normalized candidates in generateNormalizedNames order, substring scan;
\* with the keys "libfoo.so" (A) and "foo" (B) it resolves "libfoo-5.9.7.so"
\* to A.
C5_CascadeFirstHitWins ==
    \A k \in 1..Len(mCalls) :
        /\ mCalls[k].result =
               FirstHit(mRulesMap, mCalls[k].libraryName,
                        generateNormalizedNames(mCalls[k].libraryName))
        /\ ( /\ mCalls[k].libraryName = Name_foo597
             /\ { mRulesMap[i] : i \in 1..Len(mRulesMap) }
                    = { [ key |-> Key_libfoo, value |-> EntryA ],
                        [ key |-> Key_foo, value |-> EntryB ] } )
           => mCalls[k].result = << EntryA >>

\* "libfoo-5.9.7.so" looked up where "foo" is the first key and "libfoo.so"
\* the second.
C5_Witness ==
    /\ mRulesMap = << [ key |-> Key_foo, value |-> EntryB ],
                      [ key |-> Key_libfoo, value |-> EntryA ] >>
    /\ \E k \in 1..Len(mCalls) :
           mCalls[k].libraryName = Name_foo597 /\ mCalls[k].result = << EntryA >>

\* C6, as the code has it: a name with a hash core that no exact or
\* normalized key matches resolves to the first catalog key that is a
\* substring hit, and is unmatched only when there is none.
C6_HashNameAfterSubstring ==
    \A k \in 1..Len(mCalls) :
        ( /\ HasHashCore(mCalls[k].libraryName)
          /\ NoExactOrNormalizedKey(mRulesMap, mCalls[k].libraryName,
                                    generateNormalizedNames(mCalls[k].libraryName)) )
        => mCalls[k].result =
               IF SubstringHits(mRulesMap, mCalls[k].libraryName) # { }
               THEN << mRulesMap[Least(SubstringHits(mRulesMap,
                                                     mCalls[k].libraryName))].value >>
               ELSE Null

\* "libA3AEECD8.so" looked up in a rules map with the key "A3AE".
C6_Witness ==
    /\ IsKey(mRulesMap, Key_hex)
    /\ \E k \in 1..Len(mCalls) :
           /\ mCalls[k].libraryName = Name_hash
           /\ HasHashCore(Name_hash)
           /\ mCalls[k].result = << EntryC >>

\* C6, as stated: a name with a hash core that no exact or normalized key
\* matches is unmatched, even if a catalog key is a substring of it.
C6_HashNameUnmatched ==
    \A k \in 1..Len(mCalls) :
        ( /\ HasHashCore(mCalls[k].libraryName)
          /\ NoExactOrNormalizedKey(mRulesMap, mCalls[k].libraryName,
                                    generateNormalizedNames(mCalls[k].libraryName)) )
        => mCalls[k].result = Null

NothingFound(k) ==
    FirstHit(mRulesMap, mCalls[k].libraryName,
             generateNormalizedNames(mCalls[k].libraryName)) = Null

\* C8: the value fuzzyMatchLibrary returns for a hash name tells it apart
\* from a name for which no rule was found.
C8_HashOutcomeDistinct ==
    \A j, k \in 1..Len(mCalls) :
        ( /\ NothingFound(j) /\ HasHashCore(mCalls[j].libraryName)
          /\ NothingFound(k) /\ ~HasHashCore(mCalls[k].libraryName) )
        => mCalls[j].result # mCalls[k].result

(***************************************************************************)
(* Properties of the analyses of one session.                              *)
(***************************************************************************)
\* C7: the memoized matcher never returns a result computed against an
\* earlier catalog version: what it returned for a native name is what
\* fuzzyMatchLibrary returns against the native table of the current
\* version.
C7_NoStaleMatch ==
    pc = "completed" =>
        \A k \in 1..Len(calls) :
            calls[k].kind = "native" =>
                calls[k].matched = fuzzyMatchLibrary(calls[k].name, rules[1].rules.native)

(***************************************************************************)
(* Properties of the progress notifications of analyzeApk.                 *)
(***************************************************************************)
\* The place of a stage in the order of the stages; 'error' comes after all.
StageRank(stage) ==
    CASE stage = "extracting" -> 1
      [] stage = "parsing"    -> 2
      [] stage = "scanning"   -> 3
      [] stage = "matching"   -> 4
      [] stage = "completed"  -> 5
      [] stage = "error"      -> 6

ErrorsNotified == { i \in 1..Len(notified) : notified[i] = "error" }

\* C15: the stages notified by one analysis never go back in the order
\* extracting, parsing, scanning, matching, completed; 'completed' is
\* notified only when matchLibraries has returned; and a run that fails
\* notifies 'error' exactly once, as its last notification.
C15_StagesInOrder ==
    /\ \A i, j \in 1..Len(notified) :
           i < j => StageRank(notified[i]) <= StageRank(notified[j])
    /\ (\E i \in 1..Len(notified) : notified[i] = "completed") =>
           /\ pc = "completed"
           /\ notified[Len(notified)] = "completed"
           /\ notified[Len(notified) - 1] = "matching"
    /\ pc = "failed" <=> ErrorsNotified # { }
    /\ pc = "failed" => ErrorsNotified = { Len(notified) }

\* An analysis that failed when loadRules returned null, after four stages.
C15_Witness ==
    /\ pc = "failed"
    /\ notified = << "extracting", "parsing", "scanning", "matching", "error" >>

(***************************************************************************)
(* Properties of scanNativeLibraries.                                      *)
(***************************************************************************)
SlashesOf(path) == { i \in 1..Len(path) : path[i] = "/" }

LastSlashOf(path) == CHOOSE i \in SlashesOf(path) : \A j \in SlashesOf(path) : j <= i

\* path is lib/<abi>/<filename>.so: it begins with "lib/", holds exactly
\* one more slash and ends with ".so".
HasExactShape(path) ==
    /\ Len(path) >= 4
    /\ SubSeq(path, 1, 4) = << "l", "i", "b", "/" >>
    /\ Cardinality(SlashesOf(path)) = 2
    /\ SubSeq(path, Len(path) - 2, Len(path)) = << ".", "s", "o" >>

FilenameOf(path) == SubSeq(path, LastSlashOf(path) + 1, Len(path))

AbiOf(path) == SubSeq(path, 5, LastSlashOf(path) - 1)

\* The paths of the archive that have the shape, and those of one filename.
ShapedPaths ==
    { zipFiles[i].relativePath :
        i \in { j \in 1..Len(zipFiles) :
                  ~zipFiles[j].dir /\ HasExactShape(zipFiles[j].relativePath) } }

ShapedPathsOf(fileName) == { path \in ShapedPaths : FilenameOf(path) = fileName }

\* C11: scanNativeLibraries returns one record per distinct filename among
\* the paths of the shape lib/<abi>/<filename>.so; its count is the number
\* of those paths, its locations are those paths and its architectures
\* their <abi> segments, each once; paths of any other shape contribute to
\* no record.
C11_OneRecordPerFilename ==
    pc = "listed" =>
        LET nativeLibsMap == scanResult[1].nativeLibsMap
        IN  /\ HasNoDuplicate(MapKeys(nativeLibsMap))
            /\ Elements(MapKeys(nativeLibsMap)) = { FilenameOf(path) : path \in ShapedPaths }
            /\ Elements(scanResult[1].nativeLibs) = Elements(MapKeys(nativeLibsMap))
            /\ HasNoDuplicate(scanResult[1].nativeLibs)
            /\ \A i \in 1..Len(nativeLibsMap) :
                   LET fileName == nativeLibsMap[i].key
                       libInfo  == nativeLibsMap[i].value
                   IN  /\ libInfo.name = fileName
                       /\ libInfo.count = Cardinality(ShapedPathsOf(fileName))
                       /\ Elements(libInfo.locations) = ShapedPathsOf(fileName)
                       /\ HasNoDuplicate(libInfo.locations)
                       /\ Elements(libInfo.architectures) =
                              { AbiOf(path) : path \in ShapedPathsOf(fileName) }
                       /\ HasNoDuplicate(libInfo.architectures)

\* An archive with one filename under two ABIs next to entries of that
\* filename at other depths, outside lib/ and with another extension.
C11_Witness ==
    /\ pc = "listed"
    /\ \E i \in 1..Len(scanResult[1].nativeLibsMap) :
           scanResult[1].nativeLibsMap[i].value.count = 2
    /\ { Path_zz_x86, Path_zz_top, Path_zz_deep, Path_zz_txt, Path_zz_assets }
           \subseteq { zipFiles[i].relativePath : i \in 1..Len(zipFiles) }
    /\ \E i \in 1..Len(zipFiles) : zipFiles[i].dir

(***************************************************************************)
(* Properties of the binary XML decoder.                                   *)
(***************************************************************************)
Decoded == decoder.status # "running"

\* C12: decoding a valid stream cut inside a chunk ends with the
\* end-of-buffer error (the RangeError of a read past the end), never
\* normally with a partial document.
C12_TruncationFails ==
    (buf \in MidChunkTruncations /\ Decoded) => decoder.status = "RangeError"

\* C13: decoding a buffer with a string reference past the string pool
\* ends with an error, and one that is not the end-of-buffer error.
C13_BadIndexFails ==
    (buf \in BadIndexDocuments /\ Decoded) =>
        decoder.status \notin { "converted", "RangeError" }

\* C14: unknown words, unbalanced tags and missing tags in a complete
\* buffer raise nothing out of convertAxmlToXml.
C14_IrregularitiesAbsorbed ==
    (buf \in TagDocuments \cup UnknownWordDocuments /\ Decoded) =>
        decoder.status = "converted"

UnknownWordNext ==
    /\ decoder.status = "running"
    /\ InBuffer(buf, decoder.mParserOffset, WORD_SIZE)
    /\ Bytes(buf, decoder.mParserOffset, WORD_SIZE) \notin KnownWords

\* C18: a word at the current offset that is none of the nine known tags
\* moves the offset by exactly 4 bytes; no callback is called, nothing is
\* thrown and nothing else of the decoder changes.
C18_UnknownWordSkipped ==
    [][ UnknownWordNext =>
            decoder' = [ decoder EXCEPT !.mParserOffset = @ + 4 ] ]_vars

\* The typical document with two unknown words in it, decoded to the end:
\* both elements are in the tree.
C18_Witness ==
    /\ buf \in UnknownWordDocuments
    /\ Len(buf) = Len(TypicalDocument) + 2 * WORD_SIZE
    /\ decoder.status = "converted"
    /\ Len(decoder.heap) = 3
    /\ decoder.heap[2].children = << 3 >>

\* The start-tags and end-tags among the callbacks from i + 1 to k.
StartsIn(log, i, k) == Cardinality({ n \in (i + 1)..k : log[n].type = "startElement" })

EndsIn(log, i, k) == Cardinality({ n \in (i + 1)..k : log[n].type = "endElement" })

\* The start-tag heard at i is not closed yet when callback j is made.
OpenBefore(log, i, j) ==
    /\ i < j
    /\ log[i].type = "startElement"
    /\ \A k \in (i + 1)..(j - 1) : EndsIn(log, i, k) <= StartsIn(log, i, k)

OpenStartsBefore(log, j) == { i \in 1..Len(log) : OpenBefore(log, i, j) }

\* The place in heap of the node of the start-tag heard at i; root is 1.
NodeOf(log, i) == 1 + StartsIn(log, 0, i)

Greatest(indices) == CHOOSE i \in indices : \A j \in indices : i >= j

\* The node of the innermost start-tag open when callback j is made, or
\* root.
ParentOf(log, j) ==
    IF OpenStartsBefore(log, j) = { } THEN 1
    ELSE NodeOf(log, Greatest(OpenStartsBefore(log, j)))

Increasing(array) == \A a, b \in 1..Len(array) : a < b => array[a] < array[b]

\* An end-tag with no open start-tag before it has ended the decoding.
StrayEndTag == decoder.status = "TypeError" /\ decoder.nodes = << >>

\* C19: as long as every end-tag had an open start-tag before it, the
\* children of a node are the nodes of the start-tags whose innermost open
\* start-tag it was, in document order (those with none are the children
\* of root, the first of them the document root), and the stack holds the
\* nodes still open, innermost last: no node is a child twice and an
\* end-tag closes the innermost open node only.
C19_TreeFollowsNesting ==
    LET log    == decoder.events
        starts == { j \in 1..Len(log) : log[j].type = "startElement" }
    IN  /\ Len(decoder.heap) = 1 + Cardinality(starts)
        /\ \A n \in 1..Len(decoder.heap) :
               /\ Elements(decoder.heap[n].children) =
                      { NodeOf(log, j) : j \in { s \in starts : ParentOf(log, s) = n } }
               /\ Increasing(decoder.heap[n].children)
        /\ ~ StrayEndTag =>
               /\ Elements(decoder.nodes) =
                      { 1 } \cup { NodeOf(log, i) : i \in OpenStartsBefore(log, Len(log) + 1) }
               /\ Increasing(decoder.nodes)

\* A balanced document decoded to the end whose root element has two
\* children, and one whose elements nest three deep.
C19_Witness ==
    /\ decoder.status = "converted"
    /\ decoder.nodes = << 1 >>
    /\ Len(decoder.heap) = 4
    /\ decoder.heap[2].children = << 3, 4 >>

SamePair(e, f) == e.prefix = f.prefix /\ e.uri = f.uri

MappingsIn(log, type, e, i, k) ==
    Cardinality({ n \in (i + 1)..k : log[n].type = type /\ SamePair(log[n], e) })

\* The namespace started at i is not ended yet when callback j is made:
\* an end matches the innermost open start of its prefix and URI.
BindingOpen(log, i, j) ==
    /\ i < j
    /\ log[i].type = "startPrefixMapping"
    /\ \A k \in (i + 1)..(j - 1) :
           MappingsIn(log, "endPrefixMapping", log[i], i, k)
               <= MappingsIn(log, "startPrefixMapping", log[i], i, k)

OpenBindingsBefore(log, j) == { i \in 1..Len(log) : BindingOpen(log, i, j) }

\* Every namespace end heard ends the innermost namespace still open.
WellNested(log) ==
    \A k \in 1..Len(log) :
        log[k].type = "endPrefixMapping" =>
            /\ OpenBindingsBefore(log, k) # { }
            /\ SamePair(log[Greatest(OpenBindingsBefore(log, k))], log[k])

\* C20: in a document whose namespace scopes are well nested, a start-tag
\* in namespace u decoded while a namespace start of u is not ended yet
\* gets the qualified name prefix:name with a prefix whose binding to u is
\* open.
C20_BindingActiveInScope ==
    LET log == decoder.events
    IN  WellNested(log) => \A j \in 1..Len(log) :
            ( /\ log[j].type = "startElement"
              /\ \E i \in 1..Len(log) : BindingOpen(log, i, j) /\ log[i].uri = log[j].uri )
            => \E i \in 1..Len(log) :
                   /\ BindingOpen(log, i, j)
                   /\ log[i].uri = log[j].uri
                   /\ log[j].qName = log[i].prefix \o << ":" >> \o log[j].localName

(***************************************************************************)
(* Properties of extractComponents.                                        *)
(***************************************************************************)
\* The characters that end the name of an element in a tag.
NameEnds == { " ", ">", "/", "\t", "\n" }

\* The end of the name that begins at i: the index before the first
\* character of NameEnds.
RECURSIVE NameEnd(_, _)
NameEnd(text, i) ==
    IF i > Len(text) \/ text[i] \in NameEnds THEN i - 1 ELSE NameEnd(text, i + 1)

\* A start-tag of the element type begins at s.
ElementAt(text, s, type) ==
    /\ text[s] = "<"
    /\ SubSeq(text, s + 1, NameEnd(text, s + 1)) = type

\* The index of the attribute android:name=" in the tag that begins at s,
\* or 0: it follows a space, before the > of the tag.
NameAttribute(text, s) ==
    LET close  == IndexFrom(text, ">", s)
        places == { p \in s..close : text[p] = " " /\ LiteralAt(text, p + 1, Str_androidName) }
    IN  IF places = { } THEN 0 ELSE 1 + Least(places)

\* The android:name values of the elements of the type, in document order.
NamedElements(text, type, from) ==
    { s \in from..Len(text) : ElementAt(text, s, type) /\ NameAttribute(text, s) # 0 }

RECURSIVE NamesOfType(_, _, _)
NamesOfType(text, type, from) ==
    IF NamedElements(text, type, from) = { } THEN << >>
    ELSE << MatchOf(text, NameAttribute(text, Least(NamedElements(text, type, from)))).name >>
         \o NamesOfType(text, type, Least(NamedElements(text, type, from)) + 1)

\* C17: each list extractComponents returns holds the android:name values
\* of the elements of its own type and of no other, in document order,
\* duplicates kept.
C17_NamesOfThatTypeOnly ==
    pc = "extracted" =>
        /\ extracted[1].activities = NamesOfType(xmlText, Tail(Tag_activity), 1)
        /\ extracted[1].services = NamesOfType(xmlText, Tail(Tag_service), 1)
        /\ extracted[1].providers = NamesOfType(xmlText, Tail(Tag_provider), 1)
        /\ extracted[1].receivers = NamesOfType(xmlText, Tail(Tag_receiver), 1)

(***************************************************************************)
(* Properties of two analyses in flight.                                   *)
(***************************************************************************)
\* C16: the accesses to matchCache of the matching phase of one analysis
\* are not interleaved with those of the other: between two accesses of
\* one analysis there is none of the other.
C16_CacheAccessesNotInterleaved ==
    \A i, j, k \in 1..Len(cacheLog) :
        (i < j /\ j < k /\ cacheLog[i].analysis = cacheLog[k].analysis)
            => cacheLog[j].analysis = cacheLog[i].analysis

\* Both analyses went through the cache, each with two calls or more, and
\* the first of them did so while the other was suspended at an await
\* with its matching still to come.
C16_Witness ==
    /\ \A p \in 1..2 :
           Cardinality({ i \in 1..Len(cacheLog) : cacheLog[i].analysis = p }) >= 2
    /\ cacheLog[1].other \in { "loading", "matching" }
    /\ \A p \in 1..2 : flight[p].pc = "completed"

(***************************************************************************)
(* Properties of the normaliser functions.                                 *)
(***************************************************************************)
\* C22: removeVersionSuffix maps a base name followed by one documented
\* version shape (-5.9.7, _v2.0, .5.9, -release-1.2.3) to the base name.
C22_DocumentedShapesStripped ==
    \A k \in 1..Len(mCalls) :
        mCalls[k].called = "removeVersionSuffix" =>
            \A base \in BaseNames, tail \in VersionTails :
                mCalls[k].name = base \o tail => mCalls[k].result = base

\* The listed suffixes a name ends with, case-insensitively.
EndsWithSuffix(name) ==
    \E k \in 1..Len(suffixes) : endsWith(toLowerCase(name), suffixes[k])

\* C29: the result of removeCommonSuffix ends with none of the listed
\* suffixes, and applying the function again changes nothing.
C29_SuffixFixedPoint ==
    \A k \in 1..Len(mCalls) :
        mCalls[k].called = "removeCommonSuffix" =>
            /\ ~ EndsWithSuffix(mCalls[k].result)
            /\ removeCommonSuffix(mCalls[k].result) = mCalls[k].result

(***************************************************************************)
(* Properties of fuzzyMatchLibrary over inherited property names.          *)
(***************************************************************************)
\* C28: every non-null result of fuzzyMatchLibrary is the value stored under
\* one of the own keys of the rules map passed in.
C28_ResultIsOwnEntry ==
    \A k \in 1..Len(mCalls) :
        mCalls[k].result # Null =>
            \E i \in 1..Len(mRulesMap) : mRulesMap[i].value = mCalls[k].result[1]

(***************************************************************************)
(* Properties of the memoised matcher.                                     *)
(***************************************************************************)
\* C24: after any earlier lookups against the partitions of one catalog,
\* fuzzyMatchLibraryWithCache(name, T) returns what fuzzyMatchLibrary(name, T)
\* returns for the partition T of that call.
C24_MemoRefinesPlain ==
    \A k \in 1..Len(mCalls) :
        mCalls[k].result =
            fuzzyMatchLibrary(mCalls[k].libraryName,
                              rules[1].rules[mCalls[k].partition])

(***************************************************************************)
(* Frame and record invariants of matchLibraries.                          *)
(***************************************************************************)
\* C25: when matchLibraries has returned, every LibraryInfo of
\* scanResult.nativeLibsMap has the count, locations and architectures that
\* scanApk gave it, and the catalog is as loadRules returned it.
C25_InputsUnchanged ==
    pc = "completed" =>
        /\ scanResult[1].nativeLibsMap = scanApk(zipFiles, manifest).nativeLibsMap
        /\ rules[1] \in Bundles

\* C26: in every record of the list matchLibraries returns, count is the
\* number of entries of locations.
C26_CountIsNumberOfLocations ==
    pc = "completed" =>
        \A i \in 1..Len(libraries) :
            libraries[i].count = Len(libraries[i].locations)

\* A returned record merged from two native libraries and a component, and
\* another built from a component alone.
C26_Witness ==
    /\ pc = "completed"
    /\ \E i, j \in 1..Len(libraries) :
           /\ libraries[i].count >= 3
           /\ Cardinality({ k \in 1..Len(calls) :
                  calls[k].kind = "native" /\ calls[k].matched # Null
                  /\ LibraryKey(calls[k].matched[1]) = libraries[i].uuid }) >= 2
           /\ \E k \in 1..Len(calls) :
                  calls[k].kind # "native" /\ calls[k].matched # Null
                  /\ LibraryKey(calls[k].matched[1]) = libraries[i].uuid
           /\ "architectures" \notin DOMAIN libraries[j]

(***************************************************************************)
(* The stacks of parse.                                                    *)
(***************************************************************************)
\* C27: while the tree is built, the node stack of parse holds the synthetic
\* root at its bottom and the prefix stack paired with it is not empty,
\* whatever start-tag and end-tag chunks the buffer holds.
C27_RootStaysOnStack ==
    decoder # Null =>
        /\ Len(decoder.nodes) >= 1
        /\ decoder.nodes[1] = 1
        /\ Len(decoder.prefixes) >= 1

(***************************************************************************)
(* Progress of the loop of analyse.                                        *)
(***************************************************************************)
\* C23: every turn of the dispatch loop of analyse either ends the decoding
\* (end-of-stream word, error) or leaves the parser offset greater than it
\* found it, so the loop reaches the end of the buffer.
C23_OffsetAdvances ==
    (decoder # Null /\ decoder.status = "running"
                    /\ decoder.mParserOffset < Len(buf)) =>
        \/ analyseStep(buf, decoder).status # "running"
        \/ analyseStep(buf, decoder).mParserOffset > decoder.mParserOffset

(***************************************************************************)
(* Namespace declarations in the text convertAxmlToXml returns.            *)
(***************************************************************************)
\* The places of the text at which pattern occurs.
Occurrences(text, pattern) ==
    Cardinality({ i \in 1..(Len(text) - Len(pattern) + 1) :
                    SubSeq(text, i, i + Len(pattern) - 1) = pattern })

RECURSIVE StripTabs(_)
StripTabs(line) ==
    IF line # << >> /\ line[1] = "\t" THEN StripTabs(Tail(line)) ELSE line

IsStartTagLine(line) ==
    /\ Len(StripTabs(line)) >= 2
    /\ StripTabs(line)[1] = "<"
    /\ StripTabs(line)[2] \notin { "/", "?" }

\* The lines of the text that are start-tags, in order.
StartTagLines(text) == SelectSeq(split(text, "\n"), IsStartTagLine)

\* The namespace declarations heard, as the pairs of prefixes arrays.
DeclaredPairs(log) ==
    { << log[i].prefix, log[i].uri >> :
        i \in { n \in 1..Len(log) : log[n].type = "startPrefixMapping" } }

StartsOfPair(log, pair, i, k) ==
    Cardinality({ n \in i..k : /\ log[n].type = "startPrefixMapping"
                               /\ << log[n].prefix, log[n].uri >> = pair })

\* The number of start-namespace callbacks in a row from i on.
RECURSIVE NsRun(_, _)
NsRun(log, i) ==
    IF i <= Len(log) /\ log[i].type = "startPrefixMapping"
    THEN 1 + NsRun(log, i + 1) ELSE 0

\* The number of start-namespace callbacks in a row just before s.
RECURSIVE NsRunBefore(_, _)
NsRunBefore(log, s) ==
    IF s > 1 /\ log[s - 1].type = "startPrefixMapping"
    THEN 1 + NsRunBefore(log, s - 1) ELSE 0

\* An element with the n namespaces declared on it: n start-namespace
\* callbacks, the start-tag at s, child elements up to c, the end-tag at c
\* and the ends of the n namespaces, innermost first.  The index after it,
\* or 0 when the callbacks from there on are not of that shape.
RECURSIVE ElementEnd(_, _), ChildrenEnd(_, _)
ElementClosed(log, s, n, c) ==
    IF /\ c # 0 /\ c + n <= Len(log)
       /\ log[c].type = "endElement"
       /\ \A k \in 1..n : /\ log[c + k].type = "endPrefixMapping"
                          /\ SamePair(log[c + k], log[s - k])
    THEN c + n + 1 ELSE 0

ElementOpened(log, s, n) ==
    IF s <= Len(log) /\ log[s].type = "startElement"
    THEN ElementClosed(log, s, n, ChildrenEnd(log, s + 1)) ELSE 0

ElementEnd(log, i) == ElementOpened(log, i + NsRun(log, i), NsRun(log, i))

ChildrenAfter(log, e) == IF e = 0 THEN 0 ELSE ChildrenEnd(log, e)

ChildrenEnd(log, i) ==
    IF i <= Len(log) /\ log[i].type \in { "startPrefixMapping", "startElement" }
    THEN ChildrenAfter(log, ElementEnd(log, i)) ELSE i

\* One top-level element, every namespace enclosing exactly one element.
ScopedPerElement(log) == Len(log) > 0 /\ ElementEnd(log, 1) = Len(log) + 1

\* The place in the log of the j-th start-tag.
StartPlace(log, j) ==
    CHOOSE s \in 1..Len(log) :
        log[s].type = "startElement" /\ StartsIn(log, 0, s) = j

\* C21 as stated: in the text returned, the declarations of each prefix and
\* URI are as many as the start-namespace callbacks heard for them (each
\* is emitted on exactly one element).
C21_DeclaredOnExactlyOneElement ==
    decoder.status = "converted" =>
        \A pair \in DeclaredPairs(decoder.events) :
            Occurrences(decoder.xml, DeclarationText(pair)) =
                StartsOfPair(decoder.events, pair, 1, Len(decoder.events))

\* C21 for documents whose namespaces each enclose exactly one element: the
\* start-tag line of every element carries the declarations of the
\* namespaces started just before its start-tag, and no other.
C21_DeclaredOnEnclosedElement ==
    (decoder.status = "converted" /\ ScopedPerElement(decoder.events)) =>
        /\ Len(StartTagLines(decoder.xml)) = StartsIn(decoder.events, 0, Len(decoder.events))
        /\ \A j \in 1..Len(StartTagLines(decoder.xml)) :
           \A pair \in DeclaredPairs(decoder.events) :
               Occurrences(StartTagLines(decoder.xml)[j], DeclarationText(pair)) =
                   StartsOfPair(decoder.events, pair,
                                StartPlace(decoder.events, j)
                                  - NsRunBefore(decoder.events, StartPlace(decoder.events, j)),
                                StartPlace(decoder.events, j))

\* The text of a document in which a child element declares again the
\* namespace of its parent, and a later sibling declares nothing.
C21_Witness ==
    /\ decoder.status = "converted"
    /\ ScopedPerElement(decoder.events)
    /\ Len(StartTagLines(decoder.xml)) = 3
    /\ StartsOfPair(decoder.events,
                    << decoder.events[1].prefix, decoder.events[1].uri >>,
                    1, Len(decoder.events)) = 2

(***************************************************************************)
(* The messages of the analyzer worker.                                    *)
(***************************************************************************)
\* The places in the messages of request p of its terminal messages.
Terminals(p) ==
    { i \in 1..Len(posted[p]) : posted[p][i].type \in { "result", "error" } }

OneTerminalLast(p) ==
    /\ Cardinality(Terminals(p)) <= 1
    /\ \A i \in Terminals(p) : i = Len(posted[p])
    /\ handlers[p].pc = "returned" =>
           Cardinality(Terminals(p)) = IF handlers[p].type = "analyze" THEN 1 ELSE 0
    /\ handlers[p].type # "analyze" => posted[p] = << >>

Answered(p) ==
    /\ p <= Len(handlers)
    /\ handlers[p].type = "analyze" => Cardinality(Terminals(p)) = 1

=============================================================================
